---- MODULE Spec2Model ----
(***************************************************************************)
(* A model of the tiered isolation lifecycle subsystem of aiga:            *)
(*   - IframePool          (src/src/core/iframe-pool/pool.ts)              *)
(*   - KeepAliveManager    (src/src/core/iframe-pool/keep-alive-manager.ts)*)
(*   - RpcChannel          (src/src/core/rpc/channel.ts)                   *)
(*   - StrictSandbox / RemoteSandbox message listeners                     *)
(*                         (src/src/core/sandbox/strict.ts, remote.ts)     *)
(*   - AigaAppElement      (src/unnamed/part_001, the <aiga-app> element)  *)
(* Each component has its own specification (SpecPool, SpecKA, SpecRpc,    *)
(* SpecSb) and Spec is the instance controller driving the shared registry.*)
(* SpecKACb is the registry with an onEvict callback that calls back into  *)
(* it, SpecPair two channels bound to each other, SpecSbCalls a strategy   *)
(* and the pool it acquires from, SpecProxy the light variant's window and  *)
(* document proxies.                                                       *)
(***************************************************************************)
EXTENDS Integers, Sequences, FiniteSets, TLC

\* ------------------------------------------------------------------ bounds
MaxTime == 1          \* Date.now() ranges over 0..MaxTime
MaxEls == 3           \* iframes ever created by the pool
MaxCbs == 1           \* replenishment callbacks scheduled and not yet run
MaxVisits == 3        \* a registry entry's visitCount stays within 1..MaxVisits
MaxCalls == 2         \* calls and emits a channel makes (rpcIdCounter stays within 0..MaxCalls)
MaxQueue == 3         \* lifecycle operations chained on lifecycleLock and not yet settled
MaxAbandoned == 1     \* strategy mounts a load timeout gave up on that are still in flight
MaxFrames == 2        \* iframes a strategy takes for one instance, one after the other
MaxListeners == 2     \* message listeners a strategy's onMessage has on the window at once

NULL == "null"
Apps == {"a1", "a2"}

\* The pool configurations explored ({initialSize, maxSize}; the defaults are 3 and 10).
PoolConfigs ==
  { [initialSize |-> 1, maxSize |-> 2],
    [initialSize |-> 2, maxSize |-> 1] }

\* The registry configurations explored ({maxAlive, autoPromoteAfter, onEvict given};
\* the defaults are 5, 3 and no callback).
KAConfigs ==
  { [maxAlive |-> 2, autoPromoteAfter |-> 2, onEvict |-> TRUE],
    [maxAlive |-> 1, autoPromoteAfter |-> 3, onEvict |-> FALSE],
    [maxAlive |-> 0, autoPromoteAfter |-> 3, onEvict |-> TRUE] }

KAIds == {"x", "y", "z"}          \* app ids handed to the registry
\* iframe references handed to the registry with each id
KAIframes(id) == IF id = "x" THEN {NULL, "f1"} ELSE IF id = "y" THEN {"f2"} ELSE {NULL}
Priorities == {"low", "normal", "high"}

Windows == {"w1", "w2"}           \* browsing contexts a message can come from
Origins == {"o1", "o2"}           \* origins a message can declare
Methods == {"greet"}              \* method names
Events == {"ev"}                  \* event names
Values == {"v1", "v2"}            \* results and error texts on the wire

VARIABLES
  now,            \* the value Date.now() returns
  \* IframePool
  pool,           \* this.pool: sequence of PooledIframe records
  poolOpts,       \* this.opts: [initialSize, maxSize]
  poolDisposed,   \* this.disposed
  nextEl,         \* identity of the next iframe document.createElement returns
  idleCbs,        \* requestIdleCallback callbacks scheduled by replenish, each its captured deficit
  held,           \* history: contexts returned by acquire and not released since
  acquired,       \* history: the context the last pool call returned (0: it was no acquire, or it threw)
  released,       \* history of the last pool call, if it was release of a context of the pool: the context, whether its reset failed, whether release threw
  \* KeepAliveManager
  kaEntries,      \* this.entries: the Map's entries in insertion order
  kaOpts,         \* maxAlive, autoPromoteAfter and whether onEvict was given
  kaLast,         \* history of the last call, if it was add: its return value (or "threw"), the ids onEvict was called with, the iframes destroyIframe was called with, what onEvict did
  \* RpcChannel
  rpcIdCounter,   \* the module's rpcIdCounter
  rpcPending,     \* this.pending: the correlation ids with an entry
  rpcPromise,     \* per call id: the promise call() returned and how often its resolve/reject ran
  rpcTimer,       \* per call id: the call's timeout timer: "none", "armed", "cleared" or "fired"
  rpcHandlers,    \* this.handlers: the exposed methods
  rpcListeners,   \* this.eventListeners: the events with a listener
  rpcTarget,      \* this.target
  rpcTargetOrigin,\* this.targetOrigin
  rpcDisposed,    \* this.disposed
  rpcInFlight,    \* the inbound calls handleCall is awaiting the handler of
  rpcLast,        \* history: the last channel step, the messages it posted and the callbacks it ran
  rpcEvent,       \* history: source, origin and discriminator of the MessageEvent the last step handled
  \* The RpcChannel at the other end, in the target window, and the two message queues
  peerHandlers,   \* its this.handlers: the methods it exposed
  peerInFlight,   \* the calls its handleCall is awaiting the handler of
  toPeer,         \* messages posted to the target window and not delivered yet, oldest first
  toCaller,       \* messages the peer posted back and not delivered yet, oldest first
  asked,          \* history: per call id the argument call() was given
  \* AigaAppElement (one <aiga-app> element, this.app.id = ThisApp)
  isConnected,    \* the element is in the document
  srcAttr,        \* the src attribute ("" when absent); this.app.src follows it through syncAppState
  keepAliveAttr,  \* the keep-alive attribute is present
  sandboxAttr,    \* this.sandboxLevel
  status,         \* this.app.status
  mounted,        \* this.mounted
  inKeepAlive,    \* this.inKeepAlive
  rendered,       \* this.rendered (this.container exists)
  adapter,        \* this.adapter, by the level it was fetched for
  rpc,            \* this.rpc: the arguments the channel was made with, NoRpc for null
  appIframe,      \* this.app.iframe
  lifecycleLock,  \* the operations chained on this.lifecycleLock that have not settled, in chain order
  abandoned,      \* strategy mounts still in flight whose mountApp ended by the load timeout
  statusPath,     \* history: the statuses the last run of setStatus calls went through, in order
  strictIframe,   \* StrictSandbox.iframes.get(this.app.id), 0 for undefined
  \* StrictSandbox / RemoteSandbox: what the strategy keeps for one instance (app.id)
  sbKind,         \* "strict" or "remote"
  sbOrigin,       \* this.appOrigins.get(app.id), NULL for undefined
  sbFrame,        \* this.iframes.get(app.id), 0 for undefined
  sbAttached,     \* the iframe held is in the document (its contentWindow is not null)
  sbNextFrame,    \* identity of the next iframe the strategy takes
  sbOnWindow,     \* the listeners onMessage added to the window and nobody removed
  sbTracked,      \* this.messageListeners.get(app.id), NoListener for undefined
  sbLast,         \* history: the last strategy step; for a message its origin and the listeners whose handler ran, for a mount whether it navigated the iframe
  \* createScopedProxy: the window proxy of one light instance, its document proxy, and the host
  hostWindow,     \* the real window: per key the value of the property (Undefined: no such property)
  localScope,     \* localScope: per key the value written through the proxy
  localKeys,      \* localKeys
  hostTitle,      \* the real document.title
  hostCookies,    \* the real document.cookie: the cookie last set, "" for none
  scopedTitle,    \* scopedTitle of createDocumentProxy
  pwLast          \* history: the last trap that ran, its key, what it returned, and the keys ever written through the window proxy

poolVars == <<pool, poolOpts, poolDisposed, nextEl, idleCbs, held, acquired, released>>
kaVars == <<kaEntries, kaOpts, kaLast>>
rpcVars == <<rpcIdCounter, rpcPending, rpcPromise, rpcTimer, rpcHandlers, rpcListeners, rpcInFlight,
             rpcTarget, rpcTargetOrigin, rpcDisposed, rpcLast, rpcEvent,
             peerHandlers, peerInFlight, toPeer, toCaller, asked>>
peerVars == <<peerHandlers, peerInFlight, toPeer, toCaller, asked>>
attrVars == <<isConnected, srcAttr, keepAliveAttr, sandboxAttr, rendered>>
ctlVars == <<attrVars, status, mounted, inKeepAlive, adapter, rpc, appIframe, lifecycleLock,
             abandoned, strictIframe, statusPath>>
pwVars == <<hostWindow, localScope, localKeys, hostTitle, hostCookies, scopedTitle, pwLast>>
sbVars == <<sbKind, sbOrigin, sbFrame, sbAttached, sbNextFrame, sbOnWindow, sbTracked, sbLast>>
vars == <<now, poolVars, kaVars, rpcVars, sbVars, ctlVars, pwVars>>
notPool == <<kaVars, rpcVars, sbVars, ctlVars, pwVars>>
notKA == <<poolVars, rpcVars, sbVars, ctlVars, pwVars>>
notRpc == <<poolVars, kaVars, sbVars, ctlVars, peerVars, pwVars>>
notChannels == <<poolVars, kaVars, sbVars, ctlVars, pwVars>>
notSb == <<poolVars, kaVars, rpcVars, ctlVars, pwVars>>

\* ------------------------------------------------------------ IframePool

\* createdAt is written here and read nowhere in pool.ts; it is left out of the record.
createPooledIframe(el, t) ==
  [el |-> el, inUse |-> FALSE, appId |-> NULL, lastUsedAt |-> t]

\* prewarm(count): push fresh iframes until count are made or the pool is at maxSize.
RECURSIVE prewarm(_, _, _, _, _)
prewarm(p, count, maxSize, el, t) ==
  IF count <= 0 \/ Len(p) >= maxSize
    THEN p
    ELSE prewarm(Append(p, createPooledIframe(el, t)), count - 1, maxSize, el + 1, t)

\* this.pool.find((p) => !p.inUse): index of the first entry the predicate accepts, 0 for undefined.
FirstIdle_any(p) == IF Len(p) > 0 THEN 1 ELSE 0
FirstIdle(p) ==
  IF \E i \in 1..Len(p) : ~p[i].inUse
    THEN CHOOSE i \in 1..Len(p) : ~p[i].inUse /\ \A j \in 1..(i - 1) : p[j].inUse
    ELSE 0

\* this.pool.find((p) => p.el === el) / findIndex: 0 for not found.
IndexOfEl(p, el) ==
  IF \E i \in 1..Len(p) : p[i].el = el
    THEN CHOOSE i \in 1..Len(p) : p[i].el = el /\ \A j \in 1..(i - 1) : p[j].el # el
    ELSE 0

\* evictLRU(): the idle entries, stably sorted by lastUsedAt, first one; 0 for undefined.
evictLRU_any(p) == IF Len(p) > 0 THEN 1 ELSE 0
evictLRU(p) ==
  LET idle == {i \in 1..Len(p) : ~p[i].inUse} IN
  IF idle = {} THEN 0
  ELSE CHOOSE i \in idle :
         /\ \A j \in idle : p[i].lastUsedAt <= p[j].lastUsedAt
         /\ \A j \in idle : j < i => p[j].lastUsedAt > p[i].lastUsedAt

\* acquire, lines 75-90: the pool after the entry was chosen or created, and the entry's index.
AcquireChoice(p, maxSize, el, t) ==
  LET found == FirstIdle(p) IN
  IF found # 0 THEN [pool |-> p, idx |-> found, created |-> FALSE]
  ELSE IF Len(p) < maxSize
    THEN [pool |-> Append(p, createPooledIframe(el, t)), idx |-> Len(p) + 1, created |-> TRUE]
    ELSE LET lru == evictLRU(p) IN
         IF lru # 0 THEN [pool |-> p, idx |-> lru, created |-> FALSE]
         ELSE [pool |-> Append(p, createPooledIframe(el, t)), idx |-> Len(p) + 1, created |-> TRUE]

\* acquire, lines 92-94.
markInUse(e, appId, t) == [e EXCEPT !.inUse = TRUE, !.appId = appId, !.lastUsedAt = t]

\* release, lines 109-111.
markIdle_keepOwner(e, t) == [e EXCEPT !.lastUsedAt = t]
markIdle(e, t) == [e EXCEPT !.inUse = FALSE, !.appId = NULL, !.lastUsedAt = t]

\* resetIframe(entry), lines 161-168: try { el.src = 'about:blank'; ... } catch {}:
\* whether a failure of the reset leaves resetIframe and release.
ResetPropagates_throw(resetThrows) == resetThrows
ResetPropagates(resetThrows) == FALSE

NoRelease == [el |-> 0, resetThrew |-> FALSE, threw |-> FALSE]

\* stats()
stats(p) ==
  LET inUse == Cardinality({i \in 1..Len(p) : p[i].inUse}) IN
  [total |-> Len(p), inUse |-> inUse, idle |-> Len(p) - inUse]

\* replenish(): the callbacks scheduled after it ran on pool p.
replenish(p, cbs, initialSize) ==
  LET idleCount == Cardinality({i \in 1..Len(p) : ~p[i].inUse})
      deficit == initialSize - idleCount
  IN IF deficit > 0 THEN Append(cbs, deficit) ELSE cbs

RemoveAt(s, i) == SubSeq(s, 1, i - 1) \o SubSeq(s, i + 1, Len(s))

\* constructor(options): opts, then prewarm(initialSize).
PoolInit(options) ==
  /\ poolOpts = options
  /\ pool = prewarm(<<>>, options.initialSize, options.maxSize, 1, 0)
  /\ nextEl = Len(pool) + 1
  /\ poolDisposed = FALSE
  /\ idleCbs = <<>>
  /\ held = {}
  /\ acquired = 0
  /\ released = NoRelease

\* acquire(appId) on a pool that is not disposed: what it does to the pool.
acquire(appId) ==
  /\ ~poolDisposed
  /\ LET c == AcquireChoice(pool, poolOpts.maxSize, nextEl, now) IN
     /\ c.created => nextEl <= MaxEls
     /\ pool' = [c.pool EXCEPT ![c.idx] = markInUse(c.pool[c.idx], appId, now)]
     /\ nextEl' = IF c.created THEN nextEl + 1 ELSE nextEl
     /\ held' = held \cup {c.pool[c.idx].el}
     /\ acquired' = c.pool[c.idx].el
  /\ released' = NoRelease
  /\ UNCHANGED <<poolOpts, poolDisposed, idleCbs>>

Acquire(appId) == acquire(appId) /\ UNCHANGED <<now, notPool>>

AcquireDisposed(appId) ==
  /\ poolDisposed
  /\ acquired' = 0
  /\ released' = NoRelease
  /\ UNCHANGED <<now, pool, poolOpts, poolDisposed, nextEl, idleCbs, held, notPool>>

\* release(el): the entry is marked idle before the reset, whose failure resetIframe
\* swallows; then replenish.
Release(el, resetThrows) ==
  /\ LET i == IndexOfEl(pool, el) IN
     IF i = 0
       THEN UNCHANGED <<pool, idleCbs>> /\ released' = NoRelease
       ELSE LET p2 == [pool EXCEPT ![i] = markIdle(pool[i], now)] IN
            IF ResetPropagates(resetThrows)
              THEN /\ pool' = p2
                   /\ UNCHANGED idleCbs
                   /\ released' = [el |-> el, resetThrew |-> TRUE, threw |-> TRUE]
              ELSE /\ Len(replenish(p2, idleCbs, poolOpts.initialSize)) <= MaxCbs
                   /\ pool' = p2
                   /\ idleCbs' = replenish(p2, idleCbs, poolOpts.initialSize)
                   /\ released' = [el |-> el, resetThrew |-> resetThrows, threw |-> FALSE]
  /\ held' = held \ {el}
  /\ acquired' = 0
  /\ UNCHANGED <<now, poolOpts, poolDisposed, nextEl, notPool>>

\* remove(el): what it does to the pool.
remove(el) ==
  /\ LET i == IndexOfEl(pool, el) IN
     IF i = 0
       THEN UNCHANGED <<pool, idleCbs>>
       ELSE LET p2 == RemoveAt(pool, i) IN
            /\ Len(replenish(p2, idleCbs, poolOpts.initialSize)) <= MaxCbs
            /\ pool' = p2
            /\ idleCbs' = replenish(p2, idleCbs, poolOpts.initialSize)
  /\ acquired' = 0
  /\ released' = NoRelease
  /\ UNCHANGED <<poolOpts, poolDisposed, nextEl, held>>

Remove(el) == remove(el) /\ UNCHANGED <<now, notPool>>

\* The callback's first line, if (this.disposed) return.
CallbackReturns_never(disposed) == FALSE
CallbackReturns(disposed) == disposed

\* The callback replenish scheduled: if (this.disposed) return; this.prewarm(deficit).
ReplenishCallback(k) ==
  /\ k \in 1..Len(idleCbs)
  /\ LET p2 == IF CallbackReturns(poolDisposed) THEN pool
               ELSE prewarm(pool, idleCbs[k], poolOpts.maxSize, nextEl, now) IN
     /\ nextEl + (Len(p2) - Len(pool)) <= MaxEls + 1
     /\ pool' = p2
     /\ nextEl' = nextEl + (Len(p2) - Len(pool))
  /\ idleCbs' = RemoveAt(idleCbs, k)
  /\ acquired' = 0
  /\ released' = NoRelease
  /\ UNCHANGED <<now, poolOpts, poolDisposed, held, notPool>>

PoolDispose ==
  /\ poolDisposed' = TRUE
  /\ pool' = <<>>
  /\ acquired' = 0
  /\ released' = NoRelease
  /\ UNCHANGED <<now, poolOpts, nextEl, idleCbs, held, notPool>>

PoolCalls ==
  \/ \E a \in Apps : Acquire(a)
  \/ \E a \in Apps : AcquireDisposed(a)
  \/ \E el \in 1..(nextEl - 1), resetThrows \in BOOLEAN : Release(el, resetThrows)
  \/ \E el \in 1..(nextEl - 1) : Remove(el)
  \/ \E k \in 1..MaxCbs : ReplenishCallback(k)
  \/ PoolDispose

\* ------------------------------------------------------ KeepAliveManager

PRIORITY_WEIGHT(p) == CASE p = "low" -> 0 [] p = "normal" -> 1 [] p = "high" -> 2

\* this.entries.get(appId): the entry's index, 0 for undefined.
KAIndex(es, appId) ==
  IF \E i \in 1..Len(es) : es[i].appId = appId
    THEN CHOOSE i \in 1..Len(es) : es[i].appId = appId
    ELSE 0

KAHas(es, appId) == KAIndex(es, appId) # 0

\* maybePromote(entry)
maybePromote_always(e, autoPromoteAfter) == [e EXCEPT !.priority = "high"]
maybePromote(e, autoPromoteAfter) ==
  IF e.priority = "normal" /\ e.visitCount >= autoPromoteAfter
    THEN [e EXCEPT !.priority = "high"]
    ELSE e

\* The comparator of evictOne's sort: negative, zero or positive.
EvictCompare(a, b) ==
  LET pDiff == PRIORITY_WEIGHT(a.priority) - PRIORITY_WEIGHT(b.priority) IN
  IF pDiff # 0 THEN pDiff ELSE a.lastActiveAt - b.lastActiveAt

\* evictOne(): sorted[0] of the stable sort of the entries, as an index; 0 when empty.
Victim_newest(es) ==
  IF Len(es) = 0 THEN 0
  ELSE CHOOSE i \in 1..Len(es) :
         /\ \A j \in 1..Len(es) : EvictCompare(es[i], es[j]) >= 0
         /\ \A j \in 1..(i - 1) : EvictCompare(es[j], es[i]) < 0
Victim_byRecencyOnly(es) ==
  IF Len(es) = 0 THEN 0
  ELSE CHOOSE i \in 1..Len(es) :
         /\ \A j \in 1..Len(es) : es[i].lastActiveAt <= es[j].lastActiveAt
         /\ \A j \in 1..(i - 1) : es[j].lastActiveAt > es[i].lastActiveAt
Victim(es) ==
  IF Len(es) = 0 THEN 0
  ELSE CHOOSE i \in 1..Len(es) :
         /\ \A j \in 1..Len(es) : EvictCompare(es[i], es[j]) <= 0
         /\ \A j \in 1..(i - 1) : EvictCompare(es[j], es[i]) > 0

\* add, lines 84-87: whether the limit makes add call evictOne.
AtCapacity_strict(es, maxAlive) == Len(es) > maxAlive
AtCapacity(es, maxAlive) == Len(es) >= maxAlive

\* add, lines 89-97: the entry a first add inserts. name is the caller's label for appId;
\* keepAliveSince is written by add and read nowhere, and is left out of the record.
NewEntry(appId, iframe, priority, t) ==
  [appId |-> appId, name |-> appId, priority |-> priority, iframe |-> iframe,
   lastActiveAt |-> t, visitCount |-> 1]

\* add(appId, name, iframe, priority), with evictOne inlined: the entries afterwards, the
\* return value, the victims handed to onEvict and, without a callback, the iframes handed
\* to the default destroyIframe.
KAAddResult(es, opts, appId, iframe, priority, t) ==
  LET i == KAIndex(es, appId) IN
  IF i # 0
    THEN [entries |-> [es EXCEPT ![i] =
                         maybePromote([es[i] EXCEPT !.lastActiveAt = t,
                                                    !.visitCount = @ + 1,
                                                    !.iframe = iframe],
                                      opts.autoPromoteAfter)],
          ret |-> NULL, evicted |-> <<>>, destroyed |-> <<>>]
    ELSE
      LET v == IF AtCapacity(es, opts.maxAlive) THEN Victim(es) ELSE 0
          kept == IF v # 0 THEN RemoveAt(es, v) ELSE es
      IN [entries |-> Append(kept, NewEntry(appId, iframe, priority, t)),
          ret |-> IF v # 0 THEN es[v].appId ELSE NULL,
          evicted |-> IF v # 0 /\ opts.onEvict THEN <<es[v].appId>> ELSE <<>>,
          destroyed |-> IF v # 0 /\ ~opts.onEvict THEN <<es[v].iframe>> ELSE <<>>]

\* visitCount of appId's entry can still grow within the bound.
VisitsLeft(es, appId) == KAHas(es, appId) => es[KAIndex(es, appId)].visitCount < MaxVisits

NoAdd == [op |-> "other", ret |-> NULL, evicted |-> <<>>, destroyed |-> <<>>, cb |-> "none"]

KANew(options) ==
  /\ kaOpts = options
  /\ kaEntries = <<>>
  /\ kaLast = NoAdd

KAAdd(appId, iframe, priority) ==
  /\ VisitsLeft(kaEntries, appId)
  /\ LET r == KAAddResult(kaEntries, kaOpts, appId, iframe, priority, now) IN
     /\ kaEntries' = r.entries
     /\ kaLast' = [op |-> "add", ret |-> r.ret, evicted |-> r.evicted, destroyed |-> r.destroyed,
                   cb |-> "none"]
  /\ UNCHANGED <<now, kaOpts, notKA>>

\* recordVisit(appId): the entries afterwards.
recordVisit(es, opts, appId, t) ==
  LET i == KAIndex(es, appId) IN
  IF i = 0 THEN es
  ELSE [es EXCEPT ![i] = maybePromote([es[i] EXCEPT !.lastActiveAt = t, !.visitCount = @ + 1],
                                      opts.autoPromoteAfter)]

\* What the host's onEvict callback does while evictOne calls it: a call back into the
\* registry, or a throw. (KAAdd is the add whose callback, if any, does neither.)
KACallbacks ==
  [op : {"add", "remove", "recordVisit"}, appId : KAIds, priority : {"normal"}]
    \cup [op : {"setPriority"}, appId : KAIds, priority : {"high"}]
    \cup {[op |-> "throw", appId |-> NULL, priority |-> "normal"]}

\* The entries after the callback cb ran on the entries es (an eviction inside its add
\* calls onEvict again; that inner call does nothing).
Reenter(es, opts, cb, t) ==
  LET i == KAIndex(es, cb.appId) IN
  CASE cb.op = "add" ->
         KAAddResult(es, opts, cb.appId, CHOOSE f \in KAIframes(cb.appId) : TRUE,
                     cb.priority, t).entries
    [] cb.op = "recordVisit" -> recordVisit(es, opts, cb.appId, t)
    [] cb.op = "remove" -> IF i = 0 THEN es ELSE RemoveAt(es, i)
    [] cb.op = "setPriority" ->
         IF i = 0 THEN es ELSE [es EXCEPT ![i] = [@ EXCEPT !.priority = cb.priority]]
    [] OTHER -> es

\* evictOne, lines 168-173: try { this.onEvict(victim) } catch: whether a throw of the
\* callback leaves evictOne and add.
Propagates_throw(cb) == cb.op = "throw"
Propagates(cb) == FALSE

\* this.entries.set(appId, entry): a Map keeps the place of a key it already has.
MapSet(es, entry) ==
  LET i == KAIndex(es, entry.appId) IN
  IF i = 0 THEN Append(es, entry) ELSE [es EXCEPT ![i] = entry]

\* add(appId, ...) of an id that is not tracked, with a victim and an onEvict that does
\* cb: delete the victim, run the callback, insert the new entry, return the victim's id.
KAAddReentered(es, opts, appId, iframe, priority, t, cb) ==
  LET v == Victim(es)
      kept == RemoveAt(es, v)
      after == Reenter(kept, opts, cb, t)
      inner == IF cb.op = "add"
                 THEN KAAddResult(kept, opts, cb.appId, CHOOSE f \in KAIframes(cb.appId) : TRUE,
                                  cb.priority, t).evicted
                 ELSE <<>>
  IN IF Propagates(cb)
       THEN [entries |-> after, ret |-> "threw", evicted |-> <<es[v].appId>>, destroyed |-> <<>>]
       ELSE [entries |-> MapSet(after, NewEntry(appId, iframe, priority, t)),
             ret |-> es[v].appId, evicted |-> <<es[v].appId>> \o inner, destroyed |-> <<>>]

KAAddReentrant(appId, iframe, priority, cb) ==
  /\ kaOpts.onEvict
  /\ ~KAHas(kaEntries, appId)
  /\ AtCapacity(kaEntries, kaOpts.maxAlive) /\ Victim(kaEntries) # 0
  /\ cb.op \in {"add", "recordVisit"} =>
       VisitsLeft(RemoveAt(kaEntries, Victim(kaEntries)), cb.appId)
  /\ LET r == KAAddReentered(kaEntries, kaOpts, appId, iframe, priority, now, cb) IN
     /\ kaEntries' = r.entries
     /\ kaLast' = [op |-> "add", ret |-> r.ret, evicted |-> r.evicted, destroyed |-> r.destroyed,
                   cb |-> cb.op]
  /\ UNCHANGED <<now, kaOpts, notKA>>

KARecordVisit(appId) ==
  /\ VisitsLeft(kaEntries, appId)
  /\ kaEntries' = recordVisit(kaEntries, kaOpts, appId, now)
  /\ kaLast' = NoAdd
  /\ UNCHANGED <<now, kaOpts, notKA>>

KARemove(appId) ==
  /\ LET i == KAIndex(kaEntries, appId) IN
     kaEntries' = IF i = 0 THEN kaEntries ELSE RemoveAt(kaEntries, i)
  /\ kaLast' = NoAdd
  /\ UNCHANGED <<now, kaOpts, notKA>>

KASetPriority(appId, priority) ==
  /\ LET i == KAIndex(kaEntries, appId) IN
     kaEntries' = IF i = 0 THEN kaEntries
                  ELSE [kaEntries EXCEPT ![i] = [@ EXCEPT !.priority = priority]]
  /\ kaLast' = NoAdd
  /\ UNCHANGED <<now, kaOpts, notKA>>

KADispose ==
  /\ kaEntries' = <<>>
  /\ kaLast' = NoAdd
  /\ UNCHANGED <<now, kaOpts, notKA>>

\* The calls of a host whose onEvict callback uses the registry or throws.
KACallsWithCallback ==
  \/ \E id \in KAIds : \E f \in KAIframes(id) : KAAdd(id, f, "normal")
  \/ \E id \in KAIds, cb \in KACallbacks :
       \E f \in KAIframes(id) : KAAddReentrant(id, f, "normal", cb)
  \/ \E id \in KAIds : KARemove(id)

KACalls ==
  \/ \E id \in KAIds, p \in Priorities : \E f \in KAIframes(id) : KAAdd(id, f, p)
  \/ \E id \in KAIds : KARecordVisit(id)
  \/ \E id \in KAIds : KARemove(id)
  \/ \E id \in KAIds, p \in Priorities : KASetPriority(id, p)
  \/ KADispose

\* ------------------------------------------------------------ RpcChannel

CallIds == 1..MaxCalls

NoPromise == [state |-> "none", value |-> NULL, settles |-> 0]

\* The executor's resolve / reject ran: a promise takes the first outcome only.
Settle(p, state, value) ==
  IF p.state = "unsettled"
    THEN [state |-> state, value |-> value, settles |-> p.settles + 1]
    ELSE [p EXCEPT !.settles = @ + 1]

\* clearTimeout(timer)
clearTimeout_never(t) == t
clearTimeout(t) == IF t = "armed" THEN "cleared" ELSE t

\* isRpcMessage(data)
isRpcMessage(data) == data.rpc = TRUE

\* handleMessage, lines 145-153: whether the event reaches the switch.
Accepts_anySource(e) ==
  /\ ~rpcDisposed
  /\ isRpcMessage(e.data)
  /\ (rpcTargetOrigin = "*" \/ e.origin = rpcTargetOrigin)
Accepts_whenDisposed(e) ==
  /\ isRpcMessage(e.data)
  /\ rpcTarget # NULL /\ e.source = rpcTarget
  /\ (rpcTargetOrigin = "*" \/ e.origin = rpcTargetOrigin)
Accepts(e) ==
  /\ ~rpcDisposed
  /\ isRpcMessage(e.data)
  /\ rpcTarget # NULL /\ e.source = rpcTarget
  /\ (rpcTargetOrigin = "*" \/ e.origin = rpcTargetOrigin)

\* this.pending.delete(msg.id) in handleResult / handleError
DeletePending_keep(pending, id) == pending
DeletePending(pending, id) == pending \ {id}

\* The messages the inbound events carry.
Datas ==
  [rpc : {TRUE}, type : {"result"}, id : CallIds, name : {NULL}, value : Values]
  \cup [rpc : {TRUE}, type : {"error"}, id : CallIds, name : {NULL}, value : {"v1"}]
  \cup [rpc : {FALSE}, type : {"result"}, id : {1}, name : {NULL}, value : {"v1"}]
  \cup [rpc : {TRUE}, type : {"call"}, id : {1}, name : Methods, value : {"v1"}]
  \cup [rpc : {TRUE}, type : {"event"}, id : {1}, name : Events, value : {"v1"}]

MessageEvents == [source : Windows, origin : Origins, data : Datas]

Step(kind, id, out, ran) == [kind |-> kind, id |-> id, out |-> out, ran |-> ran]

\* What handleMessage reads of an event before it looks at the message's type.
NoEvent == [source |-> NULL, origin |-> NULL, rpc |-> FALSE]
EventFacts(e) == [source |-> e.source, origin |-> e.origin, rpc |-> e.data.rpc]

\* constructor(target, targetOrigin)
RpcNew(target, origin) ==
  /\ rpcIdCounter = 0
  /\ rpcPending = {}
  /\ rpcPromise = [i \in CallIds |-> NoPromise]
  /\ rpcTimer = [i \in CallIds |-> "none"]
  /\ rpcHandlers = {}
  /\ rpcListeners = {}
  /\ rpcTarget = target
  /\ rpcTargetOrigin = origin
  /\ rpcDisposed = FALSE
  /\ rpcInFlight = {}
  /\ rpcLast = Step("new", 0, <<>>, <<>>)
  /\ rpcEvent = NoEvent

\* expose(method, handler)
RpcExpose(m) ==
  /\ rpcEvent' = NoEvent
  /\ rpcHandlers' = rpcHandlers \cup {m}
  /\ rpcLast' = Step("expose", 0, <<>>, <<>>)
  /\ UNCHANGED <<now, rpcIdCounter, rpcPending, rpcPromise, rpcTimer, rpcListeners,
                 rpcTarget, rpcTargetOrigin, rpcDisposed, rpcInFlight, notRpc>>

\* on(event, handler)
RpcOn(ev) ==
  /\ rpcEvent' = NoEvent
  /\ rpcListeners' = rpcListeners \cup {ev}
  /\ rpcLast' = Step("on", 0, <<>>, <<>>)
  /\ UNCHANGED <<now, rpcIdCounter, rpcPending, rpcPromise, rpcTimer, rpcHandlers,
                 rpcTarget, rpcTargetOrigin, rpcDisposed, rpcInFlight, notRpc>>

\* call(method, ...args) on a disposed channel or one without a target: the async function throws.
RpcCallThrows(m, arg) ==
  /\ rpcEvent' = NoEvent
  /\ rpcDisposed \/ rpcTarget = NULL
  /\ rpcLast' = Step("call-threw", 0, <<>>, <<>>)
  /\ UNCHANGED <<now, rpcIdCounter, rpcPending, rpcPromise, rpcTimer, rpcHandlers, rpcListeners,
                 rpcTarget, rpcTargetOrigin, rpcDisposed, rpcInFlight, notRpc>>

\* nextId(): ++rpcIdCounter; the id is written with the counter first, so two ids are the
\* same only when their counters are.
nextId_reuse(counter) == IF counter = 0 THEN 1 ELSE counter
nextId(counter) == counter + 1

\* call(method, ...args): nextId, the timer, the pending entry, postMessage (the message
\* holds Serializable values only, postMessage returns).
Call(m, arg) ==
  /\ rpcEvent' = NoEvent
  /\ ~rpcDisposed /\ rpcTarget # NULL
  /\ rpcIdCounter < MaxCalls
  /\ LET id == nextId(rpcIdCounter) IN
     /\ rpcIdCounter' = id
     /\ rpcTimer' = [rpcTimer EXCEPT ![id] = "armed"]
     /\ rpcPromise' = [rpcPromise EXCEPT ![id] = [NoPromise EXCEPT !.state = "unsettled"]]
     /\ rpcPending' = rpcPending \cup {id}
     /\ rpcLast' = Step("call", id,
                        <<[to |-> rpcTarget, origin |-> rpcTargetOrigin, type |-> "call",
                           id |-> id, name |-> m, value |-> arg]>>, <<>>)
  /\ UNCHANGED <<now, rpcHandlers, rpcListeners, rpcTarget, rpcTargetOrigin, rpcDisposed,
                 rpcInFlight, notChannels>>

\* call() on a channel whose messages nobody at the other end is modelled for.
RpcCall(m, arg) == Call(m, arg) /\ UNCHANGED peerVars

\* The call's setTimeout callback: this.pending.delete(id); reject(timed out).
RpcTimeout(id) ==
  /\ rpcEvent' = NoEvent
  /\ rpcTimer[id] = "armed"
  /\ rpcTimer' = [rpcTimer EXCEPT ![id] = "fired"]
  /\ rpcPending' = rpcPending \ {id}
  /\ rpcPromise' = [rpcPromise EXCEPT ![id] = Settle(@, "rejected", "timed out")]
  /\ rpcLast' = Step("timeout", id, <<>>, <<>>)
  /\ UNCHANGED <<now, rpcIdCounter, rpcHandlers, rpcListeners, rpcTarget, rpcTargetOrigin,
                 rpcDisposed, rpcInFlight, notRpc>>

\* handleResult(msg) / handleError(msg)
HandleResponse(msg) ==
  IF msg.id \notin rpcPending
    THEN /\ rpcLast' = Step("dropped", msg.id, <<>>, <<>>)
         /\ UNCHANGED <<rpcPending, rpcPromise, rpcTimer, rpcInFlight>>
    ELSE /\ rpcPending' = DeletePending(rpcPending, msg.id)
         /\ rpcTimer' = [rpcTimer EXCEPT ![msg.id] = clearTimeout(@)]
         /\ rpcPromise' = [rpcPromise EXCEPT ![msg.id] =
              Settle(@, IF msg.type = "result" THEN "resolved" ELSE "rejected", msg.value)]
         /\ rpcLast' = Step(msg.type, msg.id, <<>>, <<>>)
         /\ UNCHANGED rpcInFlight

\* sendResult / sendError: the message posted, none without a target.
Reply(type, id, value) ==
  IF rpcTarget = NULL THEN <<>>
  ELSE <<[to |-> rpcTarget, origin |-> rpcTargetOrigin, type |-> type, id |-> id,
          name |-> NULL, value |-> value]>>

\* handleCall(msg) up to its await: sendError for a method that is not exposed, or the
\* handler is called. It throws at once (the catch sends the Error) or returns a value or
\* a promise, which handleCall awaits. The peer's nextId gives every call an id of its
\* own: no call arrives under the id of one whose handler has not settled.
HandleCall(msg) ==
  /\ IF msg.name \notin rpcHandlers
       THEN /\ rpcLast' = Step("handleCall", msg.id, Reply("error", msg.id, "Unknown method"), <<>>)
            /\ UNCHANGED rpcInFlight
       ELSE \E throws \in BOOLEAN :
              IF throws
                THEN /\ rpcLast' = Step("handleCall", msg.id,
                                        Reply("error", msg.id, "handler threw"), <<msg.name>>)
                     /\ UNCHANGED rpcInFlight
                ELSE /\ \A c \in rpcInFlight : c.id # msg.id
                     /\ rpcInFlight' = rpcInFlight \cup {msg}
                     /\ rpcLast' = Step("handleCall", msg.id, <<>>, <<msg.name>>)
  /\ UNCHANGED <<rpcPending, rpcPromise, rpcTimer>>

\* handleCall after its await: the handler's value arrived (the greeting of the call's
\* argument; the argument itself stands for it) or its promise rejected, and sendResult
\* / sendError post to the target the channel has now.
RpcHandlerSettles(c, rejects) ==
  /\ c \in rpcInFlight
  /\ rpcEvent' = NoEvent
  /\ rpcInFlight' = rpcInFlight \ {c}
  /\ rpcLast' = Step("handlerSettled", c.id,
                     IF rejects THEN Reply("error", c.id, "handler threw")
                     ELSE Reply("result", c.id, c.value), <<>>)
  /\ UNCHANGED <<now, rpcIdCounter, rpcPending, rpcPromise, rpcTimer, rpcHandlers, rpcListeners,
                 rpcTarget, rpcTargetOrigin, rpcDisposed, notRpc>>

\* handleEvent(msg)
HandleEvent(msg) ==
  /\ rpcLast' = Step("handleEvent", msg.id, <<>>,
                     IF msg.name \in rpcListeners THEN <<msg.name>> ELSE <<>>)
  /\ UNCHANGED <<rpcPending, rpcPromise, rpcTimer, rpcInFlight>>

\* The window's message listener: handleMessage(e).
handleMessage(e) ==
  /\ rpcEvent' = EventFacts(e)
  /\ IF ~Accepts(e)
       THEN /\ rpcLast' = Step("ignored", e.data.id, <<>>, <<>>)
            /\ UNCHANGED <<rpcPending, rpcPromise, rpcTimer, rpcInFlight>>
       ELSE CASE e.data.type \in {"result", "error"} -> HandleResponse(e.data)
              [] e.data.type = "call" -> HandleCall(e.data)
              [] e.data.type = "event" -> HandleEvent(e.data)
  /\ UNCHANGED <<now, rpcIdCounter, rpcHandlers, rpcListeners, rpcTarget, rpcTargetOrigin,
                 rpcDisposed, notChannels>>

\* A message event from anywhere reaches the listener.
RpcMessage(e) == handleMessage(e) /\ UNCHANGED peerVars

\* setTarget(target, origin)
RpcSetTarget(target, origin) ==
  /\ rpcEvent' = NoEvent
  /\ rpcTarget' = target
  /\ rpcTargetOrigin' = IF origin # NULL THEN origin ELSE rpcTargetOrigin
  /\ rpcLast' = Step("setTarget", 0, <<>>, <<>>)
  /\ UNCHANGED <<now, rpcIdCounter, rpcPending, rpcPromise, rpcTimer, rpcHandlers, rpcListeners,
                 rpcDisposed, rpcInFlight, notRpc>>

\* dispose(): every pending call is rejected (its timer cleared), the tables are emptied.
RpcDispose ==
  /\ rpcEvent' = NoEvent
  /\ rpcDisposed' = TRUE
  /\ rpcPromise' = [i \in CallIds |->
       IF i \in rpcPending THEN Settle(rpcPromise[i], "rejected", "disposed") ELSE rpcPromise[i]]
  /\ rpcTimer' = [i \in CallIds |-> IF i \in rpcPending THEN clearTimeout(rpcTimer[i]) ELSE rpcTimer[i]]
  /\ rpcPending' = {}
  /\ rpcHandlers' = {}
  /\ rpcListeners' = {}
  /\ rpcTarget' = NULL
  /\ rpcLast' = Step("dispose", 0, <<>>, <<>>)
  /\ UNCHANGED <<now, rpcIdCounter, rpcTargetOrigin, rpcInFlight, notRpc>>

RpcSteps ==
  \/ \E m \in Methods : RpcExpose(m)
  \/ \E ev \in Events : RpcOn(ev)
  \/ \E m \in Methods, v \in Values : RpcCall(m, v)
  \/ \E m \in Methods, v \in Values : RpcCallThrows(m, v)
  \/ \E id \in CallIds : RpcTimeout(id)
  \/ \E e \in MessageEvents : RpcMessage(e)
  \/ \E c \in Datas, rejects \in BOOLEAN : RpcHandlerSettles(c, rejects)
  \/ \E t \in Windows \cup {NULL}, o \in {"o1", NULL} : RpcSetTarget(t, o)
  \/ RpcDispose

\* ------------------------------------------- two RpcChannels bound to each other

PeerWindow == "w1"     \* the window the peer channel lives in: the caller's target
PeerOrigin == "o1"     \* and its origin
HostWindow == "w0"     \* the caller's window: the peer's target
HostOrigin == "o0"     \* and its origin, the peer's targetOrigin

\* The handler the peer exposes as greet.
greet(name) == CASE name = "v1" -> "Hello, v1!" [] name = "v2" -> "Hello, v2!" [] OTHER -> "Hello, !"

\* handler(...msg.args) in the peer's handleCall
Invoke_firstArgs(msg) == greet("v1")
Invoke(msg) == greet(msg.value)

\* The message a postMessage put on a queue, as the MessageEvent's data.
Data(type, id, name, value) == [rpc |-> TRUE, type |-> type, id |-> id, name |-> name, value |-> value]

\* window.postMessage(message, targetOrigin) delivers to a window of that origin only.
Delivered(m, window, origin) == m.to = window /\ (m.origin = "*" \/ m.origin = origin)

\* The peer's handleMessage test: the source is its target, the origin its targetOrigin.
PeerAccepts(e) ==
  /\ isRpcMessage(e.data)
  /\ e.source = HostWindow
  /\ e.origin = HostOrigin

PeerNew(handlers) ==
  /\ peerHandlers = handlers
  /\ peerInFlight = {}
  /\ toPeer = <<>>
  /\ toCaller = <<>>
  /\ asked = [i \in CallIds |-> NULL]

\* call(method, ...args) on the caller: the message is on its way to the peer.
PairCall(m, arg) ==
  /\ Call(m, arg)
  /\ toPeer' = Append(toPeer, rpcLast'.out[1])
  /\ asked' = [asked EXCEPT ![rpcLast'.id] = arg]
  /\ UNCHANGED <<peerHandlers, peerInFlight, toCaller>>

\* The oldest message to the peer is delivered: the peer's handleMessage and, for a call,
\* its handleCall up to the await (sendError at once for a method it does not expose or
\* a handler that throws).
PeerMessage ==
  /\ toPeer # <<>>
  /\ toPeer' = Tail(toPeer)
  /\ LET m == Head(toPeer)
         e == [source |-> HostWindow, origin |-> HostOrigin,
               data |-> Data(m.type, m.id, m.name, m.value)] IN
     IF ~(Delivered(m, PeerWindow, PeerOrigin) /\ PeerAccepts(e) /\ m.type = "call")
       THEN UNCHANGED <<peerInFlight, toCaller>>
       ELSE IF m.name \notin peerHandlers
         THEN /\ toCaller' = Append(toCaller, Data("error", m.id, NULL, "Unknown method"))
              /\ UNCHANGED peerInFlight
         ELSE \E throws \in BOOLEAN :
                IF throws
                  THEN /\ toCaller' = Append(toCaller, Data("error", m.id, NULL, "handler threw"))
                       /\ UNCHANGED peerInFlight
                  ELSE /\ peerInFlight' = peerInFlight \cup {e.data}
                       /\ UNCHANGED toCaller
  /\ UNCHANGED <<now, rpcIdCounter, rpcPending, rpcPromise, rpcTimer, rpcHandlers, rpcListeners,
                 rpcInFlight, rpcTarget, rpcTargetOrigin, rpcDisposed, rpcLast, rpcEvent,
                 peerHandlers, asked, notChannels>>

\* The peer's handler settled: sendResult with what it returned, sendError if it rejected.
PeerHandlerSettles(c, rejects) ==
  /\ c \in peerInFlight
  /\ peerInFlight' = peerInFlight \ {c}
  /\ toCaller' = Append(toCaller, IF rejects THEN Data("error", c.id, NULL, "handler threw")
                                   ELSE Data("result", c.id, NULL, Invoke(c)))
  /\ UNCHANGED <<now, rpcIdCounter, rpcPending, rpcPromise, rpcTimer, rpcHandlers, rpcListeners,
                 rpcInFlight, rpcTarget, rpcTargetOrigin, rpcDisposed, rpcLast, rpcEvent,
                 peerHandlers, toPeer, asked, notChannels>>

\* The oldest message the peer posted is delivered to the caller's handleMessage.
PairDeliver ==
  /\ toCaller # <<>>
  /\ toCaller' = Tail(toCaller)
  /\ handleMessage([source |-> PeerWindow, origin |-> PeerOrigin, data |-> Head(toCaller)])
  /\ UNCHANGED <<peerHandlers, peerInFlight, toPeer, asked>>

PairSteps ==
  \/ \E m \in Methods, v \in Values : PairCall(m, v)
  \/ PeerMessage
  \/ \E c \in [rpc : {TRUE}, type : {"call"}, id : CallIds, name : Methods, value : Values],
        rejects \in BOOLEAN : PeerHandlerSettles(c, rejects)
  \/ PairDeliver
  \/ \E id \in CallIds : RpcTimeout(id)

\* ------------------------------------------- StrictSandbox / RemoteSandbox

ThisApp == "x"                         \* app.id of the instance
SbSrcs == {"s1", "s2", "rel", "bad"}   \* app.src: two absolute URLs, a relative one, one that never parses
SbOrigins == {"o0", "o1", "o2"}        \* "o0" is the host document's origin

\* getOrigin(url): the origin, NULL when it throws. StrictSandbox parses the URL alone,
\* RemoteSandbox against window.location.href.
getOrigin(kind, url) ==
  CASE url = "s1" -> "o1"
    [] url = "s2" -> "o2"
    [] url = "rel" -> IF kind = "remote" THEN "o0" ELSE NULL
    [] OTHER -> NULL

NoListener == [frame |-> 0, expectedOrigin |-> NULL, n |-> 0]

\* iframe.contentWindow of the iframe a listener captured: 0 for null (the iframe is not
\* the one in the document any more), else the window, named as its iframe.
contentWindow(frame) == IF frame # 0 /\ frame = sbFrame /\ sbAttached THEN frame ELSE 0

\* The test of an onMessage listener before it calls its handler.
Delivers(l, e) ==
  /\ contentWindow(l.frame) # 0 /\ e.source = contentWindow(l.frame)
  /\ ~(l.expectedOrigin # NULL /\ l.expectedOrigin # "*" /\ e.origin # l.expectedOrigin)
  /\ e.aiga

SbStep(op) == [op |-> op, origin |-> NULL, ran |-> {}, loads |-> FALSE]

\* mount: if (!isRestore) { iframe.src = app.src; await the load }, isRestore being
\* whether the strategy held an iframe for the id.
Navigates_always(isRestore) == TRUE
Navigates(isRestore) == ~isRestore

\* new StrictSandbox(pool) / new RemoteSandbox()
SbNew(kind) ==
  /\ sbKind = kind
  /\ sbOrigin = NULL
  /\ sbFrame = 0
  /\ sbAttached = FALSE
  /\ sbNextFrame = 1
  /\ sbOnWindow = {}
  /\ sbTracked = NoListener
  /\ sbLast = SbStep("new")

\* mount(app, container) with a src getOrigin rejects: it throws before anything is kept.
SbMountThrows(src) ==
  /\ getOrigin(sbKind, src) = NULL
  /\ sbLast' = SbStep("mount-threw")
  /\ UNCHANGED <<now, sbKind, sbOrigin, sbFrame, sbAttached, sbNextFrame, sbOnWindow, sbTracked, notSb>>

\* Whether the strategy's iframes come from the pool: StrictSandbox acquires them and
\* its destroy hands them to pool.remove; RemoteSandbox creates and removes its own.
Pooled(kind) == kind = "strict"

\* destroy: if (iframe) { this.pool.remove(iframe) }
Removes_never(kind, frame) == FALSE
Removes(kind, frame) == Pooled(kind) /\ frame # 0

\* mount(app, container), up to its await: the origin is kept, the iframe held for the id
\* is reused or a new one is taken (StrictSandbox: pool.acquire(app.id)), and the iframe
\* is put into the container.
SbMount(src) ==
  /\ getOrigin(sbKind, src) # NULL
  /\ sbFrame = 0 => sbNextFrame <= MaxFrames
  /\ sbOrigin' = getOrigin(sbKind, src)
  /\ IF sbFrame = 0 /\ Pooled(sbKind)
       THEN acquire(ThisApp) /\ sbFrame' = acquired'
       ELSE /\ sbFrame' = IF sbFrame = 0 THEN sbNextFrame ELSE sbFrame
            /\ UNCHANGED poolVars
  /\ sbNextFrame' = IF sbFrame = 0 THEN sbNextFrame + 1 ELSE sbNextFrame
  /\ sbAttached' = TRUE
  /\ sbLast' = [SbStep("mount") EXCEPT !.loads = Navigates(sbFrame # 0)]
  /\ UNCHANGED <<now, pwVars, sbKind, sbOnWindow, sbTracked, kaVars, rpcVars, ctlVars>>

\* unmount(app): the tracked listener is removed, the iframe stays held, the origin is
\* forgotten. StrictSandbox removes the shadow host the iframe sits in; RemoteSandbox
\* leaves the iframe where it is.
SbUnmount ==
  /\ sbOnWindow' = sbOnWindow \ {sbTracked}
  /\ sbTracked' = NoListener
  /\ sbOrigin' = NULL
  /\ sbAttached' = IF sbKind = "strict" THEN FALSE ELSE sbAttached
  /\ sbLast' = SbStep("unmount")
  /\ UNCHANGED <<now, sbKind, sbFrame, sbNextFrame, notSb>>

\* destroy(app): as unmount, and the iframe held is forgotten and given up
\* (StrictSandbox: this.pool.remove(iframe); RemoteSandbox: iframe.remove()).
SbDestroy ==
  /\ sbOnWindow' = sbOnWindow \ {sbTracked}
  /\ sbTracked' = NoListener
  /\ sbOrigin' = NULL
  /\ sbFrame' = 0
  /\ sbAttached' = FALSE
  /\ sbLast' = SbStep("destroy")
  /\ IF Removes(sbKind, sbFrame) THEN remove(sbFrame) ELSE UNCHANGED poolVars
  /\ UNCHANGED <<now, pwVars, sbKind, sbNextFrame, kaVars, rpcVars, ctlVars>>

\* onMessage(app, handler): a listener that captured the iframe and the origin kept for
\* the id right now is added to the window and becomes the tracked one. n tells the
\* listeners of one capture apart.
SbOnMessage(n) ==
  /\ Cardinality(sbOnWindow) < MaxListeners
  /\ LET l == [frame |-> sbFrame, expectedOrigin |-> sbOrigin, n |-> n] IN
     /\ l \notin sbOnWindow
     /\ sbOnWindow' = sbOnWindow \cup {l}
     /\ sbTracked' = l
  /\ sbLast' = SbStep("onMessage")
  /\ UNCHANGED <<now, sbKind, sbOrigin, sbFrame, sbAttached, sbNextFrame, notSb>>

\* The function onMessage returned is called: its listener is removed, and whatever
\* listener is tracked for the id is forgotten.
SbUnsubscribe(l) ==
  /\ l \in sbOnWindow
  /\ sbOnWindow' = sbOnWindow \ {l}
  /\ sbTracked' = NoListener
  /\ sbLast' = SbStep("unsubscribe")
  /\ UNCHANGED <<now, sbKind, sbOrigin, sbFrame, sbAttached, sbNextFrame, notSb>>

\* The window's message events: source 0 is a window that is no iframe of the strategy.
SbMessageEvents ==
  [source : 0..(IF MaxEls > MaxFrames THEN MaxEls ELSE MaxFrames), origin : SbOrigins, aiga : BOOLEAN]

\* A message event reaches every listener on the window.
SbMessage(e) ==
  /\ sbLast' = [op |-> "message", origin |-> e.origin, ran |-> {l \in sbOnWindow : Delivers(l, e)},
                 loads |-> FALSE]
  /\ UNCHANGED <<now, sbKind, sbOrigin, sbFrame, sbAttached, sbNextFrame, sbOnWindow, sbTracked, notSb>>

\* The calls of the strategy's methods, and the pool's callback.
SbCalls ==
  \/ \E src \in SbSrcs : SbMountThrows(src)
  \/ \E src \in SbSrcs : SbMount(src)
  \/ SbUnmount
  \/ SbDestroy
  \/ \E n \in 1..MaxListeners : SbOnMessage(n)
  \/ \E l \in sbOnWindow : SbUnsubscribe(l)
  \/ \E k \in 1..MaxCbs : ReplenishCallback(k)

SbSteps ==
  \/ SbCalls
  \/ \E e \in SbMessageEvents : SbMessage(e)

\* ------------------------------------- createScopedProxy (the light variant)

Undefined == "undefined"
PwValues == {"v1", "n7"}                               \* what a script writes: a string, the number 7
PwKeys == {"document", "setTimeout", "store"}   \* property keys; store is a global of the application's or the host's
DocKeys == {"title", "cookie"}                         \* properties of document

\* String(value)
String(v) == IF v = "n7" THEN "7" ELSE v

\* The get trap of the window proxy, lines 324-357: the document proxy, the proxy itself,
\* a tracking timer wrapper, the locally written value, or Reflect.get on the real window.
WindowGet(key) ==
  IF key = "document" THEN "documentProxy"
  ELSE IF key \in {"window", "self", "globalThis"} THEN "proxy"
  ELSE IF key = "setTimeout" THEN "wrappedSetTimeout"
  ELSE IF key \in localKeys THEN localScope[key]
  ELSE hostWindow[key]

PwStep(op, key, ret) == [op |-> op, key |-> key, ret |-> ret, written |-> pwLast.written]

\* createScopedProxy(options) in a page whose window has the global store or not, and
\* whose document has the title t: scopedTitle = document.title.
PwNew(store, t) ==
  /\ hostWindow = [k \in PwKeys |->
       CASE k = "document" -> "hostDocument" [] k = "setTimeout" -> "hostSetTimeout"
         [] OTHER -> store]
  /\ localScope = [k \in PwKeys |-> Undefined]
  /\ localKeys = {}
  /\ hostTitle = t
  /\ hostCookies = ""
  /\ scopedTitle = t
  /\ pwLast = [op |-> "new", key |-> NULL, ret |-> NULL, written |-> {}]

\* A script reads proxy[key].
PwGet(key) ==
  /\ pwLast' = PwStep("get", key, WindowGet(key))
  /\ UNCHANGED <<now, hostWindow, localScope, localKeys, hostTitle, hostCookies, scopedTitle,
                 poolVars, kaVars, rpcVars, sbVars, ctlVars>>

\* A script writes proxy[key] = value: the set trap, lines 359-366.
PwSet(key, value) ==
  /\ localScope' = [localScope EXCEPT ![key] = value]
  /\ localKeys' = localKeys \cup {key}
  /\ pwLast' = [PwStep("set", key, TRUE) EXCEPT !.written = @ \cup {key}]
  /\ UNCHANGED <<now, hostWindow, hostTitle, hostCookies, scopedTitle,
                 poolVars, kaVars, rpcVars, sbVars, ctlVars>>

\* key in proxy: the has trap, lines 368-371.
PwHas(key) ==
  /\ pwLast' = PwStep("has", key, key \in localKeys \/ hostWindow[key] # Undefined)
  /\ UNCHANGED <<now, hostWindow, localScope, localKeys, hostTitle, hostCookies, scopedTitle,
                 poolVars, kaVars, rpcVars, sbVars, ctlVars>>

\* delete proxy[key]: the deleteProperty trap, lines 373-383.
PwDeleteProperty(key) ==
  /\ localScope' = [localScope EXCEPT ![key] = Undefined]
  /\ localKeys' = localKeys \ {key}
  /\ pwLast' = PwStep("delete", key, TRUE)
  /\ UNCHANGED <<now, hostWindow, hostTitle, hostCookies, scopedTitle,
                 poolVars, kaVars, rpcVars, sbVars, ctlVars>>

\* A script reads document[key] through the document proxy, lines 434-464: scopedTitle for
\* the title; for the cookie Reflect.get(target, prop, receiver) runs the accessor of the
\* real document with the proxy as its this, which gives the real cookies or a TypeError.
DocGet(key) ==
  /\ \E illegalInvocation \in BOOLEAN :
       pwLast' = PwStep("docGet", key,
                        IF key = "title" THEN scopedTitle
                        ELSE IF illegalInvocation THEN "TypeError" ELSE hostCookies)
  /\ UNCHANGED <<now, hostWindow, localScope, localKeys, hostTitle, hostCookies, scopedTitle,
                 poolVars, kaVars, rpcVars, sbVars, ctlVars>>

\* A script writes document[key] = value through the document proxy, lines 466-477: the
\* title goes to scopedTitle, everything else to the real document by Reflect.set.
DocSet(key, value) ==
  /\ IF key = "title"
       THEN scopedTitle' = String(value) /\ UNCHANGED hostCookies
       ELSE hostCookies' = String(value) /\ UNCHANGED scopedTitle
  /\ pwLast' = PwStep("docSet", key, TRUE)
  /\ UNCHANGED <<now, hostWindow, localScope, localKeys, hostTitle,
                 poolVars, kaVars, rpcVars, sbVars, ctlVars>>

\* The host page writes its own global, its own title.
HostWrites(key, value) ==
  /\ IF key = "title"
       THEN hostTitle' = value /\ UNCHANGED hostWindow
       ELSE hostWindow' = [hostWindow EXCEPT ![key] = value] /\ UNCHANGED hostTitle
  /\ pwLast' = PwStep("host", key, NULL)
  /\ UNCHANGED <<now, localScope, localKeys, hostCookies, scopedTitle,
                 poolVars, kaVars, rpcVars, sbVars, ctlVars>>

ProxySteps ==
  \/ \E k \in PwKeys : PwGet(k)
  \/ \E k \in PwKeys, v \in PwValues : PwSet(k, v)
  \/ \E k \in PwKeys : PwHas(k)
  \/ \E k \in PwKeys : PwDeleteProperty(k)
  \/ \E k \in DocKeys : DocGet(k)
  \/ \E k \in DocKeys, v \in PwValues : DocSet(k, v)
  \/ \E k \in {"store", "title"}, v \in {"h1", "h2"} : HostWrites(k, v)

\* ---------------------------------------------------------- AigaAppElement

OtherApp == "y"                   \* the id of another element of the page
Srcs == {"", "s1"}          \* values of the src attribute, "" for none
Levels == {"strict", "light"}     \* values of the sandbox attribute

\* deriveOrigin(url): the URL's origin; '*' when it does not parse.
deriveOrigin(appSrc) == CASE appSrc = "s1" -> "o1" [] appSrc = "s2" -> "o2" [] OTHER -> "*"

\* The reference to the pool's iframe el, as app.iframe and the registry hold it.
IframeRef(el) == ToString(el)

NoRpc == [target |-> NULL, origin |-> NULL]

\* A function chained on lifecycleLock. at is where it stands: "queued" (not called yet),
\* "mount" (mountApp awaits adapter.mount), "unmount" / "destroy" (unmountApp awaits the
\* adapter), "unmounted" (remount's unmountApp returned, its mountApp is not called yet).
\* isRestore is mountApp's argument; settled says adapter.mount returned a promise that is
\* already settled, threw that it is a rejected one.
Task(op, shouldRestore) ==
  [op |-> op, shouldRestore |-> shouldRestore, at |-> "queued", isRestore |-> FALSE,
   settled |-> FALSE, threw |-> FALSE]

\* this.lifecycleLock.then(fn): fn is called once the promise it was chained on has settled,
\* that is once every operation chained before it has left the sequence.
CanStart_any(lock, i) == TRUE
CanStart_newest(lock, i) == i = Len(lock)
CanStart(lock, i) == i = 1

\* What follows the end of unmountApp in the operation i: remount goes on to mountApp.
AfterUnmount(lock, i) ==
  IF lock[i].op = "remount" THEN [lock EXCEPT ![i].at = "unmounted"] ELSE RemoveAt(lock, i)

\* new AigaAppElement() with the attributes the markup gives it, not connected yet.
CtlNew(src, keepAlive, sandbox) ==
  /\ isConnected = FALSE
  /\ srcAttr = src
  /\ keepAliveAttr = keepAlive
  /\ sandboxAttr = sandbox
  /\ status = "idle"
  /\ mounted = FALSE
  /\ inKeepAlive = FALSE
  /\ rendered = FALSE
  /\ adapter = NULL
  /\ rpc = NoRpc
  /\ appIframe = NULL
  /\ lifecycleLock = <<>>
  /\ abandoned = 0
  /\ strictIframe = 0
  /\ statusPath = <<>>

\* connectedCallback(): render, and with a src chain the mount, shouldRestore captured now.
Connect ==
  /\ ~isConnected
  /\ srcAttr # "" => Len(lifecycleLock) < MaxQueue
  /\ isConnected' = TRUE
  /\ rendered' = TRUE
  /\ lifecycleLock' = IF srcAttr # "" THEN Append(lifecycleLock, Task("connect", inKeepAlive))
                      ELSE lifecycleLock
  /\ UNCHANGED <<now, pwVars, poolVars, kaVars, rpcVars, sbVars, srcAttr, keepAliveAttr, sandboxAttr, status,
                 mounted, inKeepAlive, adapter, rpc, appIframe, abandoned, strictIframe, statusPath>>

\* disconnectedCallback(): chain unmountApp.
Disconnect ==
  /\ isConnected
  /\ Len(lifecycleLock) < MaxQueue
  /\ isConnected' = FALSE
  /\ lifecycleLock' = Append(lifecycleLock, Task("disconnect", FALSE))
  /\ UNCHANGED <<now, pwVars, poolVars, kaVars, rpcVars, sbVars, srcAttr, keepAliveAttr, sandboxAttr, rendered,
                 status, mounted, inKeepAlive, adapter, rpc, appIframe, abandoned, strictIframe, statusPath>>

\* attributeChangedCallback('src', old, v): chain remount when connected and v is not empty.
SetSrc(v) ==
  /\ v # srcAttr
  /\ (isConnected /\ v # "") => Len(lifecycleLock) < MaxQueue
  /\ srcAttr' = v
  /\ lifecycleLock' = IF isConnected /\ v # "" THEN Append(lifecycleLock, Task("remount", FALSE))
                      ELSE lifecycleLock
  /\ UNCHANGED <<now, pwVars, poolVars, kaVars, rpcVars, sbVars, isConnected, keepAliveAttr, sandboxAttr, rendered,
                 status, mounted, inKeepAlive, adapter, rpc, appIframe, abandoned, strictIframe, statusPath>>

\* attributeChangedCallback('keep-alive', ...)
SetKeepAlive(b) ==
  /\ b # keepAliveAttr
  /\ keepAliveAttr' = b
  /\ UNCHANGED <<now, pwVars, poolVars, kaVars, rpcVars, sbVars, isConnected, srcAttr, sandboxAttr, rendered,
                 status, mounted, inKeepAlive, adapter, rpc, appIframe, lifecycleLock, abandoned,
                 strictIframe, statusPath>>

\* The statuses mountApp sets before it awaits: a restore goes to mounting at once.
MountStatuses_direct(isRestore) == <<"mounting">>
MountStatuses(isRestore) == IF isRestore THEN <<"mounting">> ELSE <<"loading", "mounting">>

\* The adapter method unmountApp calls, by this.keepAlive.
UnmountCall_destroy(keepAlive) == "destroy"
UnmountCall(keepAlive) == IF keepAlive THEN "unmount" ELSE "destroy"

\* this._props when mountApp reads it: no key, values postMessage can clone, a value it
\* cannot clone. The host sets the property, and changes the object, whenever it likes.
PropsValues == {"none", "plain", "opaque"}

\* Promise.race([adapter.mount(...), timeout]): the input that settles after the race
\* was decided changes nothing the controller keeps (status, mounted, rpc).
LoserSettles_applies(st) == <<"error", st[2], st[3]>>
LoserSettles(st) == st

\* Whether the strategy's mount loads the src and awaits it: StrictSandbox navigates the
\* iframe unless it already holds one for the id; LightSandbox always fetches the src.
MountLoads(level, hasIframe) == IF level = "strict" THEN ~hasIframe ELSE TRUE

\* mountApp's try / catch (lines 211, 275-278): whether a failure of the awaited mount
\* leaves mountApp as a rejection of the promise it returned.
MountRejects_rethrow(failed) == failed
MountRejects(failed) == FALSE

\* mountApp returned in operation i: its promise is fulfilled and the operation leaves the
\* sequence, or it is rejected, and lifecycleLock with it: no function chained with
\* then() is called any more.
MountAppEnds(lock, i, failed) ==
  IF MountRejects(failed) THEN [lock EXCEPT ![i].at = "rejected"] ELSE RemoveAt(lock, i)

\* mountApp(isRestore) in operation i, up to its await: the early return, or the statuses,
\* the adapter, and adapter.mount up to its own await: StrictSandbox throws on a src that
\* has no origin, reuses the iframe it holds for the id and is done, or acquires one from
\* the pool and waits for its load; LightSandbox fetches the src.
mountAppBegins(i, isRestore) ==
  IF mounted \/ ~rendered
    THEN /\ lifecycleLock' = RemoveAt(lifecycleLock, i)
         /\ UNCHANGED <<status, statusPath, adapter, strictIframe, poolVars>>
    ELSE /\ status' = "mounting"
         /\ statusPath' = MountStatuses(isRestore)
         /\ adapter' = sandboxAttr
         /\ LET threw == sandboxAttr = "strict" /\ getOrigin("strict", srcAttr) = NULL IN
            /\ IF sandboxAttr = "strict" /\ ~threw /\ strictIframe = 0
                 THEN /\ acquire(ThisApp)
                      /\ strictIframe' = acquired'
                 ELSE UNCHANGED <<strictIframe, poolVars>>
            /\ lifecycleLock' = [lifecycleLock EXCEPT ![i] =
                 [@ EXCEPT !.at = "mount", !.isRestore = isRestore, !.threw = threw,
                           !.settled = threw \/ ~MountLoads(sandboxAttr, strictIframe # 0)]]

\* unmountApp() in operation i, up to its await: the early return, or the status, the
\* channel's disposal and adapter.unmount / adapter.destroy up to their await
\* (StrictSandbox.unmount leaves the iframe it holds in app.iframe).
unmountAppBegins(i) ==
  IF ~mounted \/ adapter = NULL
    THEN /\ lifecycleLock' = AfterUnmount(lifecycleLock, i)
         /\ UNCHANGED <<status, statusPath, rpc, appIframe>>
    ELSE /\ status' = "unmounting"
         /\ statusPath' = <<"unmounting">>
         /\ rpc' = NoRpc
         /\ appIframe' = IF adapter = "strict" /\ strictIframe # 0
                           THEN IframeRef(strictIframe) ELSE appIframe
         /\ lifecycleLock' = [lifecycleLock EXCEPT ![i].at = UnmountCall(keepAliveAttr)]

\* The function connectedCallback chained is called.
StartConnect(i) ==
  /\ i \in 1..Len(lifecycleLock)
  /\ lifecycleLock[i].op = "connect" /\ lifecycleLock[i].at = "queued"
  /\ CanStart(lifecycleLock, i)
  /\ mountAppBegins(i, lifecycleLock[i].shouldRestore /\ KAHas(kaEntries, ThisApp))
  /\ UNCHANGED <<now, pwVars, kaVars, rpcVars, sbVars, attrVars, mounted, inKeepAlive, rpc, appIframe,
                 abandoned>>

\* The function disconnectedCallback chained is called.
StartDisconnect(i) ==
  /\ i \in 1..Len(lifecycleLock)
  /\ lifecycleLock[i].op = "disconnect" /\ lifecycleLock[i].at = "queued"
  /\ CanStart(lifecycleLock, i)
  /\ unmountAppBegins(i)
  /\ UNCHANGED <<now, pwVars, poolVars, kaVars, rpcVars, sbVars, attrVars, mounted, inKeepAlive, adapter,
                 abandoned, strictIframe>>

\* remount() is called: await this.unmountApp().
StartRemount(i) ==
  /\ i \in 1..Len(lifecycleLock)
  /\ lifecycleLock[i].op = "remount" /\ lifecycleLock[i].at = "queued"
  /\ CanStart(lifecycleLock, i)
  /\ unmountAppBegins(i)
  /\ UNCHANGED <<now, pwVars, poolVars, kaVars, rpcVars, sbVars, attrVars, mounted, inKeepAlive, adapter,
                 abandoned, strictIframe>>

\* remount(), second line: await this.mountApp(false).
RemountMounts(i) ==
  /\ i \in 1..Len(lifecycleLock)
  /\ lifecycleLock[i].at = "unmounted"
  /\ mountAppBegins(i, FALSE)
  /\ UNCHANGED <<now, pwVars, kaVars, rpcVars, sbVars, attrVars, mounted, inKeepAlive, rpc, appIframe,
                 abandoned>>

\* adapter.mount resolved and mountApp goes on: setupRpc for strict (the iframe is found
\* through app.iframe only: the container's and the shadow root's querySelector do not
\* reach into the adapter's nested shadow root; its contentWindow is null while the
\* element is out of the document), recordVisit, mounted, and the props-update emit,
\* which throws into the catch block when postMessage cannot clone the props.
AdapterMounted(i) ==
  /\ i \in 1..Len(lifecycleLock)
  /\ lifecycleLock[i].at = "mount" /\ ~lifecycleLock[i].threw
  /\ rpc' = IF adapter = "strict" /\ appIframe # NULL /\ isConnected
              THEN [target |-> appIframe, origin |-> deriveOrigin(srcAttr)]
              ELSE rpc
  /\ VisitsLeft(kaEntries, ThisApp)
  /\ kaEntries' = recordVisit(kaEntries, kaOpts, ThisApp, now)
  /\ kaLast' = NoAdd
  /\ mounted' = TRUE
  /\ inKeepAlive' = FALSE
  /\ \E props \in PropsValues :
       IF rpc' # NoRpc /\ props = "opaque"
         THEN status' = "error" /\ statusPath' = <<"mounted", "error">>
         ELSE status' = "mounted" /\ statusPath' = <<"mounted">>
  /\ lifecycleLock' = RemoveAt(lifecycleLock, i)
  /\ UNCHANGED <<now, pwVars, poolVars, kaOpts, rpcVars, sbVars, attrVars, adapter, appIframe, abandoned,
                 strictIframe>>

\* adapter.mount rejected (getOrigin threw, the iframe's error event, a failed fetch): the
\* catch block. (The load timer of a fresh mount stays armed; when it fires, its reject
\* finds the race settled and nothing of the element changes.)
AdapterMountFailed(i) ==
  /\ i \in 1..Len(lifecycleLock)
  /\ lifecycleLock[i].at = "mount" /\ (~lifecycleLock[i].settled \/ lifecycleLock[i].threw)
  /\ status' = "error"
  /\ statusPath' = <<"error">>
  /\ lifecycleLock' = MountAppEnds(lifecycleLock, i, TRUE)
  /\ UNCHANGED <<now, pwVars, poolVars, kaVars, rpcVars, sbVars, attrVars, mounted, inKeepAlive, adapter, rpc,
                 appIframe, abandoned, strictIframe>>

\* The load timeout of a fresh mount fired first: Promise.race rejects, the catch block
\* runs, and adapter.mount stays in flight with nobody awaiting it.
LoadTimeout(i) ==
  /\ i \in 1..Len(lifecycleLock)
  /\ lifecycleLock[i].at = "mount" /\ ~lifecycleLock[i].isRestore /\ ~lifecycleLock[i].settled
  /\ abandoned < MaxAbandoned
  /\ abandoned' = abandoned + 1
  /\ status' = "error"
  /\ statusPath' = <<"error">>
  /\ lifecycleLock' = MountAppEnds(lifecycleLock, i, TRUE)
  /\ UNCHANGED <<now, pwVars, poolVars, kaVars, rpcVars, sbVars, attrVars, mounted, inKeepAlive, adapter, rpc,
                 appIframe, strictIframe>>

\* An adapter.mount the load timeout gave up on settles: only its clearTimeout runs.
AbandonedMountSettles ==
  /\ abandoned > 0
  /\ abandoned' = abandoned - 1
  /\ LET st == LoserSettles(<<status, mounted, rpc>>) IN
     status' = st[1] /\ mounted' = st[2] /\ rpc' = st[3]
  /\ UNCHANGED <<now, pwVars, poolVars, kaVars, rpcVars, sbVars, attrVars, inKeepAlive, adapter,
                 appIframe, lifecycleLock, strictIframe, statusPath>>

\* adapter.unmount resolved and unmountApp goes on: the registry's add, unmounted.
AdapterUnmounted(i) ==
  /\ i \in 1..Len(lifecycleLock)
  /\ lifecycleLock[i].at = "unmount"
  /\ inKeepAlive' = TRUE
  /\ VisitsLeft(kaEntries, ThisApp)
  /\ LET r == KAAddResult(kaEntries, kaOpts, ThisApp, appIframe, "normal", now) IN
     /\ kaEntries' = r.entries
     /\ kaLast' = [op |-> "add", ret |-> r.ret, evicted |-> r.evicted, destroyed |-> r.destroyed,
                   cb |-> "none"]
  /\ mounted' = FALSE
  /\ status' = "unmounted"
  /\ statusPath' = <<"unmounted">>
  /\ lifecycleLock' = AfterUnmount(lifecycleLock, i)
  /\ UNCHANGED <<now, pwVars, poolVars, kaOpts, rpcVars, sbVars, attrVars, adapter, rpc, appIframe, abandoned,
                 strictIframe>>

\* adapter.destroy goes on after its unmount and resolves (StrictSandbox forgets the
\* iframe and removes it from the pool); unmountApp goes on: unmounted.
AdapterDestroyed(i) ==
  /\ i \in 1..Len(lifecycleLock)
  /\ lifecycleLock[i].at = "destroy"
  /\ IF adapter = "strict"
       THEN /\ strictIframe' = 0
            /\ appIframe' = NULL
            /\ IF strictIframe # 0 THEN remove(strictIframe) ELSE UNCHANGED poolVars
       ELSE UNCHANGED <<strictIframe, appIframe, poolVars>>
  /\ inKeepAlive' = FALSE
  /\ mounted' = FALSE
  /\ status' = "unmounted"
  /\ statusPath' = <<"unmounted">>
  /\ lifecycleLock' = AfterUnmount(lifecycleLock, i)
  /\ UNCHANGED <<now, pwVars, kaVars, rpcVars, sbVars, attrVars, adapter, rpc, abandoned>>

\* Another element was unmounted with keep-alive set: its unmountApp adds it to the registry.
OtherRetained == KAAdd(OtherApp, "f2", "normal")

Lifecycle ==
  \/ Connect
  \/ Disconnect
  \/ \E v \in Srcs : SetSrc(v)
  \/ \E b \in BOOLEAN : SetKeepAlive(b)
  \/ \E i \in 1..MaxQueue : StartConnect(i)
  \/ \E i \in 1..MaxQueue : StartDisconnect(i)
  \/ \E i \in 1..MaxQueue : StartRemount(i)
  \/ \E i \in 1..MaxQueue : RemountMounts(i)
  \/ \E i \in 1..MaxQueue : AdapterMounted(i)
  \/ \E i \in 1..MaxQueue : AdapterMountFailed(i)
  \/ \E i \in 1..MaxQueue : LoadTimeout(i)
  \/ AbandonedMountSettles
  \/ \E i \in 1..MaxQueue : AdapterUnmounted(i)
  \/ \E i \in 1..MaxQueue : AdapterDestroyed(i)

\* -------------------------------------------------------- specifications

\* Date.now() advances between two calls.
Tick ==
  /\ now < MaxTime
  /\ now' = now + 1
  /\ UNCHANGED <<poolVars, kaVars, rpcVars, sbVars, ctlVars, pwVars>>

PoolIdle == PoolInit([initialSize |-> 1, maxSize |-> 2])
CtlIdle == CtlNew("", FALSE, "strict")
KAIdle == KANew([maxAlive |-> 5, autoPromoteAfter |-> 3, onEvict |-> FALSE])
RpcIdle == RpcNew(NULL, "*") /\ PeerNew({})
SbIdle == SbNew("strict")
PwIdle == PwNew(Undefined, "h1")

InitPool == now = 0 /\ PwIdle /\ (\E o \in PoolConfigs : PoolInit(o)) /\ KAIdle /\ RpcIdle /\ SbIdle /\ CtlIdle
NextPool == PoolCalls \/ Tick
SpecPool == InitPool /\ [][NextPool]_vars

InitKA == now = 0 /\ PwIdle /\ PoolIdle /\ (\E o \in KAConfigs : KANew(o)) /\ RpcIdle /\ SbIdle /\ CtlIdle
NextKA == KACalls \/ Tick
SpecKA == InitKA /\ [][NextKA]_vars

\* A registry constructed with an onEvict callback.
InitKACb ==
  /\ now = 0 /\ PwIdle /\ PoolIdle /\ RpcIdle /\ SbIdle /\ CtlIdle
  /\ \E o \in {c \in KAConfigs : c.onEvict} : KANew(o)
NextKACb == KACallsWithCallback \/ Tick
SpecKACb == InitKACb /\ [][NextKACb]_vars

\* new RpcChannel(target, targetOrigin = '*')
InitRpc ==
  /\ now = 0 /\ PwIdle /\ PoolIdle /\ KAIdle /\ SbIdle /\ CtlIdle
  /\ \E t \in {"w1", NULL}, o \in {"o1", "*"} : RpcNew(t, o)
  /\ PeerNew({})
NextRpc == RpcSteps
SpecRpc == InitRpc /\ [][NextRpc]_vars

\* Two channels bound to each other: the caller's target is the peer's window with its
\* origin, the peer's target the caller's; the peer exposes greet, or nothing.
InitPair ==
  /\ now = 0 /\ PwIdle /\ PoolIdle /\ KAIdle /\ SbIdle /\ CtlIdle
  /\ RpcNew(PeerWindow, PeerOrigin)
  /\ \E h \in {{}, {"greet"}} : PeerNew(h)
NextPair == PairSteps
SpecPair == InitPair /\ [][NextPair]_vars

\* One strategy object and one instance it serves.
InitSb ==
  /\ now = 0 /\ PwIdle /\ PoolIdle /\ KAIdle /\ RpcIdle /\ CtlIdle
  /\ \E k \in {"strict", "remote"} : SbNew(k)
NextSb == SbSteps
SpecSb == InitSb /\ [][NextSb]_vars

\* The strategy's methods called in any order, no message arriving.
NextSbCalls == SbCalls
SpecSbCalls == InitSb /\ [][NextSbCalls]_vars

\* The window and document proxies of one light instance, its scripts and the host page.
InitProxy ==
  /\ now = 0 /\ PoolIdle /\ KAIdle /\ RpcIdle /\ SbIdle /\ CtlIdle
  /\ \E store \in {Undefined, "h1"} : PwNew(store, "h1")
NextProxy == ProxySteps
SpecProxy == InitProxy /\ [][NextProxy]_vars

\* Aiga.getInstance(config): the pool, and a registry given maxAlive only; one element
\* and the page around it.
Init ==
  /\ now = 0 /\ PwIdle /\ RpcIdle /\ SbIdle
  /\ PoolInit([initialSize |-> 0, maxSize |-> 2])
  /\ KANew([maxAlive |-> 1, autoPromoteAfter |-> 3, onEvict |-> FALSE])
  /\ \E l \in Levels : CtlNew("s1", FALSE, l)
Next ==
  \/ Lifecycle
  \/ OtherRetained
Spec == Init /\ [][Next]_vars


\* ------------------------------------------------------ IframePool: claims

AcquireStep == \E a \in Apps : Acquire(a)

ElsOf(p) == {p[i].el : i \in 1..Len(p)}

AllInUse(p) == \A i \in 1..Len(p) : p[i].inUse

\* C3, state part: an entry's owner id is null exactly when the entry is not in use,
\* and no context is held by two entries.
PoolOwnerInv ==
  /\ \A i \in 1..Len(pool) : (pool[i].appId = NULL) <=> ~pool[i].inUse
  /\ \A i, j \in 1..Len(pool) : pool[i].el = pool[j].el => i = j

\* C3: in every reachable pool state a context is in use by at most one owner and the
\* owner id is null iff the entry is idle; acquire never returns a context that is marked
\* in use or that an earlier acquire returned and nobody released since.
C3_ExclusiveOwner ==
  /\ []PoolOwnerInv
  /\ [][AcquireStep =>
          /\ acquired' \notin held
          /\ \A i \in 1..Len(pool) : pool[i].el = acquired' => ~pool[i].inUse]_vars

C3_Witness ==
  /\ Len(pool) >= 3
  /\ pool[1].inUse /\ pool[2].inUse /\ pool[1].appId # pool[2].appId
  /\ ~pool[3].inUse
  /\ acquired = pool[2].el

\* C4: stats().inUse never exceeds the number of acquire calls whose returned context
\* has not been released since.
C4_InUseBounded == stats(pool).inUse <= Cardinality(held)

\* One context acquired and removed (never released), another acquired and still in use.
C4_Witness == stats(pool).inUse = 1 /\ Cardinality(held) = 2 /\ acquired = 0

\* C5 (as claimed): the total exceeds maxSize only while every entry is in use.
C5_TotalWithinMax == Len(pool) > poolOpts.maxSize => AllInUse(pool)

\* C6 (as claimed): an acquire that reuses an existing entry while the pool is at maxSize
\* returns the idle entry with the smallest lastUsedAt, ties broken by insertion order.
C6_ReusesLRU ==
  [][(AcquireStep /\ Len(pool') = Len(pool) /\ Len(pool) >= poolOpts.maxSize)
       => acquired' = pool[evictLRU(pool)].el]_vars

\* C7: acquire on a non-disposed pool returns a context that is in use afterwards and was
\* not in use before; with every entry in use and the pool at or above maxSize it creates
\* exactly one entry; with an idle entry present it reuses an idle entry and creates nothing.
C7_AcquireAlwaysReturns ==
  [][AcquireStep =>
       /\ \E i \in 1..Len(pool') : pool'[i].el = acquired' /\ pool'[i].inUse
       /\ \A i \in 1..Len(pool) : pool[i].el = acquired' => ~pool[i].inUse
       /\ (AllInUse(pool) /\ Len(pool) >= poolOpts.maxSize) =>
            /\ Len(pool') = Len(pool) + 1
            /\ acquired' \notin ElsOf(pool)
            /\ SubSeq(pool', 1, Len(pool)) = pool
       /\ ~AllInUse(pool) =>
            /\ Len(pool') = Len(pool)
            /\ acquired' \in ElsOf(pool)]_vars

\* maxSize = 2, two contexts in use, the third acquire created the overflow entry.
C7_Witness ==
  /\ poolOpts.maxSize = 2 /\ Len(pool) = 3 /\ AllInUse(pool)
  /\ acquired = pool[3].el

\* C25: release of a context of the pool returns normally whether or not the reset of the
\* context failed, and afterwards the context's entry is not in use and has no owner.
C25_ReleaseAlwaysIdles ==
  released # NoRelease =>
    /\ ~released.threw
    /\ released.el \notin held
    /\ \E i \in 1..Len(pool) :
         pool[i].el = released.el /\ ~pool[i].inUse /\ pool[i].appId = NULL

\* The reset of context 1 failed while another context stays in use: release returned and
\* context 1 is idle.
C25_Witness ==
  /\ released = [el |-> 1, resetThrew |-> TRUE, threw |-> FALSE]
  /\ Len(pool) >= 2
  /\ pool[1].el = 1 /\ ~pool[1].inUse /\ pool[1].appId = NULL /\ pool[1].lastUsedAt = 1
  /\ pool[2].inUse

\* A callback replenish scheduled runs in this step.
ReplenishRuns == Len(idleCbs') < Len(idleCbs)

\* C33 (as claimed): release creates no entry; a replenishment callback leaves at most
\* initialSize entries idle, unless more than that were idle before it ran, and then no
\* more than were, and it never raises the total above maxSize.
C33_ReplenishTowardInitialSize ==
  [][ /\ released' # NoRelease => Len(pool') = Len(pool)
      /\ ReplenishRuns =>
           ( /\ \/ stats(pool').idle <= poolOpts.initialSize
                \/ stats(pool').idle = stats(pool).idle
             /\ \/ Len(pool') <= poolOpts.maxSize
                \/ Len(pool') = Len(pool) )
    ]_vars

\* C40: a disposed pool stays disposed and empty. acquire on it returns no context (it
\* throws) and marks nothing; release and remove find no entry and schedule no callback;
\* and a callback that replenish scheduled before the dispose creates no entry when it
\* fires afterwards: no step on a disposed pool creates a context or schedules a callback.
C40_DisposedStaysEmpty ==
  /\ [](poolDisposed => pool = <<>>)
  /\ [][poolDisposed =>
          (/\ poolDisposed' /\ pool' = <<>>
           /\ acquired' = 0 /\ held' \subseteq held
           /\ released' = NoRelease
           /\ nextEl' = nextEl
           /\ \/ idleCbs' = idleCbs
              \/ \E k \in 1..Len(idleCbs) : idleCbs' = RemoveAt(idleCbs, k))]_vars

\* The pool was disposed while a context was in use and a replenish callback was
\* scheduled: the release of that context and the callback are still to come.
C40_Witness ==
  /\ poolDisposed /\ pool = <<>>
  /\ idleCbs # <<>> /\ idleCbs[1] > 0
  /\ held # {}
  /\ Len(pool) < poolOpts.maxSize


\* -------------------------------------------------- KeepAliveManager: claims

KAIdsOf(es) == {es[i].appId : i \in 1..Len(es)}

\* C8 (as claimed): for every configured maximum the number of tracked entries never
\* exceeds maxAlive.
C8_SizeWithinMax == Len(kaEntries) <= kaOpts.maxAlive

\* An add of a not-yet-tracked id to a registry that is at capacity and holds an entry.
AddAtCapacityStep(id) ==
  /\ \E p \in Priorities : \E f \in KAIframes(id) : KAAdd(id, f, p)
  /\ id \notin KAIdsOf(kaEntries)
  /\ Len(kaEntries) >= kaOpts.maxAlive
  /\ Len(kaEntries) > 0

\* e is evicted before every other entry: lowest priority, and the oldest lastActiveAt
\* among the entries of that priority.
IsLowestOldest(es, e) ==
  \A j \in 1..Len(es) :
    \/ PRIORITY_WEIGHT(e.priority) < PRIORITY_WEIGHT(es[j].priority)
    \/ /\ e.priority = es[j].priority
       /\ e.lastActiveAt <= es[j].lastActiveAt

KAEntry(es, appId) == es[KAIndex(es, appId)]

\* recordVisit(appId), or add on the tracked appId, ran in this step: the visit count of
\* the entry, which stays tracked, went up.
VisitStep(appId) ==
  /\ KAHas(kaEntries, appId) /\ KAHas(kaEntries', appId)
  /\ KAEntry(kaEntries', appId).visitCount = KAEntry(kaEntries, appId).visitCount + 1

\* C21: a visit that brings a normal entry's visit count to autoPromoteAfter or above makes
\* it high; any other recordVisit or add on a tracked id leaves the priority as it is (so
\* it never lowers it); and a step that changes the priority of an entry that stays
\* tracked without being such a promotion is a setPriority: it touches nothing else of
\* the entry.
C21_PromotedStaysHigh ==
  [][\A id \in KAIds :
       (KAHas(kaEntries, id) /\ KAHas(kaEntries', id)) =>
         LET e == KAEntry(kaEntries, id)
             f == KAEntry(kaEntries', id)
         IN /\ VisitStep(id) =>
                 f.priority = IF e.priority = "normal" /\ f.visitCount >= kaOpts.autoPromoteAfter
                                THEN "high" ELSE e.priority
            /\ (f.priority # e.priority /\ ~VisitStep(id)) =>
                 f = [e EXCEPT !.priority = f.priority]]_vars

\* autoPromoteAfter = 2: "x" is high after a visit that followed the one which brought
\* its visit count to the threshold.
C21_Witness ==
  /\ kaOpts.autoPromoteAfter = 2
  /\ KAHas(kaEntries, "x")
  /\ KAEntry(kaEntries, "x").priority = "high"
  /\ KAEntry(kaEntries, "x").visitCount = 3
  /\ KAEntry(kaEntries, "x").lastActiveAt = 1
  /\ kaLast.op = "other"


\* An add ran in this step whose onEvict callback called back into the registry.
ReentrantAddStep ==
  /\ now' = now
  /\ kaLast'.op = "add"
  /\ kaLast'.cb \in {"add", "remove", "recordVisit", "setPriority"}

NoIdTwice(es) == \A i, j \in 1..Len(es) : es[i].appId = es[j].appId => i = j

\* C22 (as claimed): when the eviction callback fired inside add calls back into the
\* registry (add, remove, recordVisit or setPriority) on a registry within its limit, then
\* after the outer add has returned the entry count is at most maxAlive, no id is tracked
\* twice, and the victim is not tracked.
C22_ReentrantAddKeepsInvariants ==
  [][(ReentrantAddStep /\ Len(kaEntries) <= kaOpts.maxAlive) =>
       /\ Len(kaEntries') <= kaOpts.maxAlive
       /\ NoIdTwice(kaEntries')
       /\ kaLast'.ret \notin KAIdsOf(kaEntries')]_vars


\* An add ran in this step whose onEvict callback threw.
CallbackThrewStep == now' = now /\ kaLast'.op = "add" /\ kaLast'.cb = "throw"

\* C23: when the eviction callback throws, add does not throw: it returns the id of the
\* victim, which the callback was called with once and which is tracked no more, and the
\* new entry is tracked in its place.
C23_CallbackThrowCaught ==
  [][CallbackThrewStep =>
       /\ kaLast'.ret # "threw"
       /\ kaLast'.ret \in KAIdsOf(kaEntries) /\ kaLast'.ret \notin KAIdsOf(kaEntries')
       /\ kaLast'.ret = kaEntries[Victim(kaEntries)].appId
       /\ kaLast'.evicted = <<kaLast'.ret>>
       /\ \E id \in KAIds \ KAIdsOf(kaEntries) :
            /\ KAIdsOf(kaEntries') = (KAIdsOf(kaEntries) \ {kaLast'.ret}) \cup {id}
            /\ KAEntry(kaEntries', id).visitCount = 1
       /\ Len(kaEntries') = Len(kaEntries)]_vars

\* maxAlive = 2: the add of "z" evicted "x", the callback threw, and "z" is tracked next
\* to "y".
C23_Witness ==
  /\ kaOpts.maxAlive = 2
  /\ kaLast.op = "add" /\ kaLast.cb = "throw" /\ kaLast.ret = "x" /\ kaLast.evicted = <<"x">>
  /\ KAIdsOf(kaEntries) = {"y", "z"}


\* What the claim compares of an entry: priority, visit count, held context.
EntryFacts(e) == <<e.priority, e.visitCount, e.iframe>>

\* C24 (as claimed): add on a tracked id evicts nothing, calls no eviction callback,
\* returns null and leaves the set of tracked ids as it is, and applied twice in a row it
\* leaves the entry's priority, visit count and held context as applied once.
C24_AddOnTrackedIdempotent ==
  \A id \in KAIdsOf(kaEntries), p \in Priorities : \A f \in KAIframes(id) :
    LET once == KAAddResult(kaEntries, kaOpts, id, f, p, now)
        twice == KAAddResult(once.entries, kaOpts, id, f, p, now)
    IN /\ once.ret = NULL /\ once.evicted = <<>> /\ once.destroyed = <<>>
       /\ KAIdsOf(once.entries) = KAIdsOf(kaEntries)
       /\ twice.ret = NULL /\ twice.evicted = <<>> /\ twice.destroyed = <<>>
       /\ KAIdsOf(twice.entries) = KAIdsOf(kaEntries)
       /\ EntryFacts(KAEntry(twice.entries, id)) = EntryFacts(KAEntry(once.entries, id))


\* ------------------------------------------------------------ RpcChannel: claims

Settled(id) == rpcPromise[id].state \in {"resolved", "rejected"}

\* C10: every call's promise is settled at most once: resolve or reject runs once per
\* call, a settled call has no pending entry and no armed timer (so its timeout cannot
\* fire any more), and once a call is settled, by a result, an error or the timeout, no
\* step changes its promise, its pending entry or its timer; a later response with the
\* same id is discarded, leaving promises, pending table and timers as they are.
C10_SettlesOnce ==
  /\ [](\A id \in CallIds :
          /\ rpcPromise[id].settles <= 1
          /\ Settled(id) => id \notin rpcPending /\ rpcTimer[id] # "armed"
          /\ Settled(id) <=> rpcPromise[id].settles = 1)
  /\ [][/\ \A id \in CallIds : Settled(id) =>
             /\ rpcPromise'[id] = rpcPromise[id]
             /\ rpcTimer'[id] = rpcTimer[id]
             /\ id \notin rpcPending'
        /\ (/\ rpcLast'.kind \in {"result", "error", "dropped", "timeout"}
            /\ rpcLast'.id \in CallIds
            /\ Settled(rpcLast'.id)) =>
             /\ rpcLast'.kind = "dropped"
             /\ rpcPending' = rpcPending
             /\ rpcPromise' = rpcPromise
             /\ rpcTimer' = rpcTimer]_vars

\* Call 1 was resolved with "v1" by a result, and a later response with the same id
\* reached handleResult / handleError and was discarded.
C10_Witness ==
  /\ rpcPromise[1] = [state |-> "resolved", value |-> "v1", settles |-> 1]
  /\ rpcTimer[1] = "cleared"
  /\ rpcLast.kind = "dropped" /\ rpcLast.id = 1

MessageStep == rpcEvent' # NoEvent

\* The channel's own state, without the two history variables.
rpcState == <<rpcIdCounter, rpcPending, rpcPromise, rpcTimer, rpcHandlers, rpcListeners, rpcInFlight,
              rpcTarget, rpcTargetOrigin, rpcDisposed>>

\* The message was dropped: nothing settled, nothing posted, no handler or listener run.
Dropped ==
  /\ rpcLast'.kind = "ignored" /\ rpcLast'.out = <<>> /\ rpcLast'.ran = <<>>
  /\ UNCHANGED rpcState

\* C13: a message reaches the channel's dispatch only if it carries the discriminator
\* and its source is the bound target; a message without the discriminator, from another
\* context (whatever its origin, and also when its id is that of a pending call) or
\* arriving while no target is bound changes no channel state, posts nothing and runs no
\* handler or listener.
C13_OnlyBoundSource ==
  [][MessageStep =>
       /\ (~rpcEvent'.rpc \/ rpcTarget = NULL \/ rpcEvent'.source # rpcTarget) => Dropped
       /\ rpcLast'.kind # "ignored" => rpcEvent'.rpc /\ rpcTarget # NULL /\ rpcEvent'.source = rpcTarget]_vars

\* A result for the pending call 1 came from a context other than the bound one, with the
\* expected origin, and was dropped: call 1 is still pending.
C13_Witness ==
  /\ rpcTarget = "w1" /\ rpcTargetOrigin = "o1"
  /\ rpcEvent = [source |-> "w2", origin |-> "o1", rpc |-> TRUE]
  /\ rpcLast.kind = "ignored" /\ rpcLast.id = 1
  /\ 1 \in rpcPending /\ rpcPromise[1].state = "unsettled"

\* C14: dispose() rejects every call that is pending with the disposed-channel error
\* (clearing its timer), leaves the other promises alone and leaves the pending table,
\* the exposed handlers and the event listeners empty; on a disposed channel the table
\* stays empty and no call is unsettled, every call() fails without taking an id, posting
\* a message or adding an entry, and every inbound message is dropped.
C14_DisposeRejectsAll ==
  /\ [](rpcDisposed =>
          /\ rpcPending = {}
          /\ \A id \in CallIds : rpcPromise[id].state # "unsettled" /\ rpcTimer[id] # "armed")
  /\ [][/\ (~rpcDisposed /\ rpcDisposed') =>
             /\ \A id \in CallIds :
                  IF id \in rpcPending
                    THEN /\ rpcPromise'[id] = [state |-> "rejected", value |-> "disposed", settles |-> 1]
                         /\ rpcTimer'[id] = "cleared"
                    ELSE rpcPromise'[id] = rpcPromise[id] /\ rpcTimer'[id] = rpcTimer[id]
             /\ rpcPending' = {} /\ rpcHandlers' = {} /\ rpcListeners' = {}
        /\ rpcDisposed =>
             /\ rpcDisposed'
             /\ rpcLast'.kind \in {"call-threw", "ignored", "expose", "on", "setTarget", "dispose",
                                  "handlerSettled"}
             /\ rpcLast'.kind # "handlerSettled" => rpcLast'.out = <<>> /\ rpcLast'.ran = <<>>
             /\ rpcIdCounter' = rpcIdCounter /\ rpcPending' = {}
             /\ rpcPromise' = rpcPromise /\ rpcTimer' = rpcTimer
             /\ MessageStep => Dropped]_vars

\* Two calls were pending when the channel was disposed; a call made afterwards threw.
C14_Witness ==
  /\ rpcDisposed
  /\ rpcPromise[1] = [state |-> "rejected", value |-> "disposed", settles |-> 1]
  /\ rpcPromise[2] = [state |-> "rejected", value |-> "disposed", settles |-> 1]
  /\ rpcTimer[1] = "cleared" /\ rpcTimer[2] = "cleared"
  /\ rpcLast.kind = "call-threw"

\* handleCall finished for a call the channel accepted: at once (unknown method, handler
\* threw) or when the awaited handler settled.
CallAnswered ==
  \/ rpcLast'.kind = "handleCall" /\ rpcInFlight' = rpcInFlight
  \/ rpcLast'.kind = "handlerSettled"

\* C26: every inbound call an undisposed channel accepted gets exactly one terminal
\* response with the call's id: an error when the method is not exposed or the handler
\* threw or rejected, otherwise a result carrying the handler's value; the step leaves
\* the channel undisposed, and an error that arrives for a pending call rejects the
\* caller's promise.
C26_OneTerminalResponse ==
  [][ /\ (CallAnswered /\ ~rpcDisposed') =>
             ( /\ Len(rpcLast'.out) = 1
               /\ rpcLast'.out[1].id = rpcLast'.id
               /\ rpcLast'.out[1].type \in {"result", "error"}
               /\ rpcDisposed' = rpcDisposed )
      /\ (rpcLast'.kind = "handleCall" /\ rpcInFlight' = rpcInFlight) =>
             rpcLast'.out[1].type = "error"
      /\ (rpcLast'.kind = "handlerSettled" /\ ~rpcDisposed' /\ rpcLast'.out[1].type = "result") =>
             (\E c \in rpcInFlight : c.id = rpcLast'.id /\ rpcLast'.out[1].value = c.value)
      /\ rpcLast'.kind = "error" =>
             ( /\ rpcPromise'[rpcLast'.id].state = "rejected"
               /\ rpcPromise'[rpcLast'.id].value = "v1" )
    ]_vars

\* The peer's Result for a call that is still pending (its timeout has not fired) is
\* delivered to the caller.
ResultArrives(id) ==
  /\ toCaller # <<>> /\ toCaller' = Tail(toCaller)
  /\ Head(toCaller).type = "result" /\ Head(toCaller).id = id
  /\ id \in rpcPending

\* C28: between two channels bound to each other, the Result that arrives for a pending
\* call resolves that call's promise, and no other, with exactly what the peer's handler
\* returns for the argument the call was made with; a promise is never resolved with
\* anything else.
C28_CallResolvesWithHandlerValue ==
  /\ [](\A id \in CallIds :
          rpcPromise[id].state = "resolved" => rpcPromise[id].value = greet(asked[id]))
  /\ [][\A id \in CallIds :
          ResultArrives(id) =>
            /\ rpcPromise'[id] = [state |-> "resolved", value |-> greet(asked[id]), settles |-> 1]
            /\ id \notin rpcPending' /\ rpcTimer'[id] = "cleared"
            /\ \A other \in CallIds \ {id} : rpcPromise'[other] = rpcPromise[other]]_vars

\* Two calls were made, greet("v1") then greet("v2"); the second was answered first and
\* both promises hold their own greeting.
C28_Witness ==
  /\ asked[1] = "v1" /\ asked[2] = "v2"
  /\ rpcPromise[1] = [state |-> "resolved", value |-> "Hello, v1!", settles |-> 1]
  /\ rpcPromise[2] = [state |-> "resolved", value |-> "Hello, v2!", settles |-> 1]
  /\ rpcLast.kind = "result" /\ rpcLast.id = 1

\* The call has been issued: nextId has handed out its id.
Issued(id) == id <= rpcIdCounter

C12_MismatchNeverDelivered ==
  (sbLast.op = "message" /\ sbOrigin \notin {NULL, "*"} /\ sbLast.origin # sbOrigin) =>
    sbLast.ran = {}

\* The contexts the pool counts as in use by the instance.
InUseBy(p, appId) == {p[i].el : i \in {j \in 1..Len(p) : p[j].inUse /\ p[j].appId = appId}}

\* What the strategy keeps for the instance.
sbState == <<sbOrigin, sbFrame, sbAttached, sbOnWindow, sbTracked>>

\* The step is a call of the strategy (the pool's replenish callback shortens idleCbs).
StrategyStep == Len(idleCbs') >= Len(idleCbs)

\* C29: the pool counts as in use by the instance exactly the context a strict strategy
\* holds for it; destroy forgets the context, origin and listener of the instance and
\* takes the context out of the pool, so that the pool counts nothing as in use by the
\* instance; a destroy that follows a destroy changes neither what the strategy keeps for
\* the instance nor the pool.
C29_DestroyIdempotent ==
  /\ [](InUseBy(pool, ThisApp) = IF sbKind = "strict" /\ sbFrame # 0 THEN {sbFrame} ELSE {})
  /\ [][/\ (sbLast'.op = "destroy" /\ StrategyStep) =>
             /\ sbFrame' = 0 /\ sbOrigin' = NULL /\ sbTracked' = NoListener
             /\ InUseBy(pool', ThisApp) = {}
             /\ (sbKind = "strict" /\ sbFrame # 0) => IndexOfEl(pool', sbFrame) = 0
             /\ stats(pool').inUse = 0
        /\ (sbLast.op = "destroy" /\ sbLast'.op = "destroy" /\ StrategyStep) =>
             /\ UNCHANGED sbState
             /\ UNCHANGED <<pool, poolOpts, poolDisposed, nextEl, idleCbs>>]_vars

\* A strict strategy acquired the context 1 for the instance and destroyed it: the
\* context is gone from the pool, nothing is in use, and the refill is scheduled.
C29_Witness ==
  /\ sbKind = "strict" /\ sbLast.op = "destroy" /\ sbFrame = 0
  /\ 1 \in held /\ IndexOfEl(pool, 1) = 0
  /\ stats(pool).inUse = 0 /\ idleCbs # <<>>

\* The pool, without its two history variables of the last call.
poolState == <<pool, poolOpts, poolDisposed, nextEl, idleCbs, held>>

\* unmount of an instance the strict strategy holds a context for; mount of such an instance.
RetainStep == StrategyStep /\ sbKind = "strict" /\ sbFrame # 0 /\ sbLast'.op = "unmount"
RestoreStep == StrategyStep /\ sbKind = "strict" /\ sbFrame # 0 /\ sbLast'.op = "mount"

\* C30: a strict strategy's unmount keeps the context it holds for the instance, and the
\* mount that follows reuses it: neither step acquires, releases or removes anything (the
\* pool and its stats are as before), the context is the same and stays in use by the
\* same instance, from the unmount to the mount and after, and the mount does not
\* navigate it.
C30_RestoreReusesContext ==
  /\ []((sbKind = "strict" /\ sbFrame # 0) =>
          \E i \in 1..Len(pool) : pool[i].el = sbFrame /\ pool[i].inUse /\ pool[i].appId = ThisApp)
  /\ [][(RetainStep \/ RestoreStep) =>
          /\ sbFrame' = sbFrame
          /\ UNCHANGED poolState
          /\ stats(pool') = stats(pool)
          /\ InUseBy(pool', ThisApp) = {sbFrame}
          /\ RestoreStep => ~sbLast'.loads /\ sbAttached']_vars

\* The strict strategy mounted the instance again after an unmount (a listener registered
\* in between captured the context 1 and no origin): the context 1 was not navigated.
C30_Witness ==
  /\ sbKind = "strict" /\ sbFrame = 1 /\ sbAttached /\ sbOrigin = "o2"
  /\ sbLast.op = "mount" /\ ~sbLast.loads
  /\ InUseBy(pool, ThisApp) = {1} /\ stats(pool) = [total |-> 1, inUse |-> 1, idle |-> 0]
  /\ \E l \in sbOnWindow : l.frame = 1 /\ l.expectedOrigin = NULL

\* -------------------------------------------------------- AigaAppElement: claims

\* The chained operations that were called and have not returned yet.
RunningOps == {i \in 1..Len(lifecycleLock) : lifecycleLock[i].at # "queued"}

\* The adapter.mount calls mountApp is awaiting.
AwaitedMounts == {i \in 1..Len(lifecycleLock) : lifecycleLock[i].at = "mount"}

\* The adapter.mount calls that have not settled, awaited or given up on.
InFlightMounts == Cardinality(AwaitedMounts) + abandoned

\* C1 (as claimed): no two strategy mounts of the instance are in flight at once, and once
\* the lifecycle queue has drained an instance that left idle is mounted or unmounted.
C1_NoOverlapOneTerminal ==
  /\ InFlightMounts <= 1
  /\ (lifecycleLock = <<>> /\ status # "idle") => status \in {"mounted", "unmounted"}

\* C1 (amended): the chained lifecycle operations run one at a time, oldest first, so
\* mountApp awaits at most one strategy mount; a second strategy mount is in flight only
\* next to mounts a load timeout gave up on; and once the queue has drained the status is
\* one of idle, mounted, unmounted and error (never loading, mounting or unmounting).
C1_Serialized ==
  /\ Cardinality(RunningOps) <= 1
  /\ RunningOps \subseteq {1}
  /\ Cardinality(AwaitedMounts) <= 1
  /\ InFlightMounts > 1 => abandoned > 0
  /\ lifecycleLock = <<>> => status \in {"idle", "mounted", "unmounted", "error"}

\* Attach, detach, re-attach while a strategy mount is awaited, next to a mount an
\* earlier load timeout gave up on: the detach and the re-attach wait in the queue.
C1_Witness ==
  /\ Len(lifecycleLock) = 3
  /\ lifecycleLock[1].at = "mount"
  /\ lifecycleLock[2].op = "disconnect" /\ lifecycleLock[2].at = "queued"
  /\ lifecycleLock[3].op = "connect" /\ lifecycleLock[3].at = "queued"
  /\ abandoned = 1

\* C2 (as claimed): an instance whose status is mounted has no entry in the registry.
C2_MountedNotRetained == status = "mounted" => ~KAHas(kaEntries, ThisApp)

\* A triggering event arrived: its operation joins the end of the sequence, not called yet.
Arrives ==
  /\ Len(lifecycleLock') = Len(lifecycleLock) + 1
  /\ SubSeq(lifecycleLock', 1, Len(lifecycleLock)) = lifecycleLock
  /\ lifecycleLock'[Len(lifecycleLock')].at = "queued"

\* The oldest operation moved on (was called, went past an await) or returned; the ones
\* that arrived after it stay as they are.
OldestMoves ==
  /\ lifecycleLock # <<>>
  /\ \/ lifecycleLock' = Tail(lifecycleLock)
     \/ Len(lifecycleLock') = Len(lifecycleLock) /\ Tail(lifecycleLock') = Tail(lifecycleLock)

\* C15: the lifecycle operations of the instance run one at a time in the order their
\* events arrived: only the oldest operation of the sequence is ever running, every change
\* of the sequence is an arrival at its end or a move of its oldest operation, and the
\* status becomes unmounting only in a step of the oldest operation taken while no mount
\* is awaited: a detach that arrived during a mount waits until the mount has settled.
C15_OneAtATimeInOrder ==
  /\ [](RunningOps \subseteq {1} /\ (status = "unmounting" => AwaitedMounts = {}))
  /\ [][/\ lifecycleLock' # lifecycleLock => Arrives \/ OldestMoves
        /\ (status # "unmounting" /\ status' = "unmounting") =>
             /\ AwaitedMounts = {}
             /\ RunningOps = {}
             /\ lifecycleLock[1].op \in {"disconnect", "remount"}
             /\ lifecycleLock'[1].at \in {"unmount", "destroy"}
             /\ Tail(lifecycleLock') = Tail(lifecycleLock)]_vars

\* A detach arrived while the mount of the attach is awaited: it is queued behind it.
C15_Witness ==
  /\ Len(lifecycleLock) = 2
  /\ lifecycleLock[1].op = "connect" /\ lifecycleLock[1].at = "mount"
  /\ lifecycleLock[2].op = "disconnect" /\ lifecycleLock[2].at = "queued"
  /\ status = "mounting" /\ ~mounted /\ ~isConnected

\* The statuses the instance goes through in a step, from the one it had before the step.
StatusWalk == <<status>> \o statusPath'

\* The step calls setStatus.
StatusStep == statusPath' # statusPath \/ status' # status

\* The consecutive pairs of StatusWalk.
StatusChanges == {<<StatusWalk[k], StatusWalk[k + 1]>> : k \in 1..(Len(StatusWalk) - 1)}

\* The lifecycle graph as the specification draws it.
ClaimedEdges ==
  {<<"idle", "loading">>, <<"loading", "mounting">>, <<"mounting", "mounted">>,
   <<"mounted", "unmounting">>, <<"unmounting", "unmounted">>, <<"loading", "error">>,
   <<"mounting", "error">>, <<"unmounted", "mounting">>}

\* A new mount attempt after an unmount that kept nothing or after a failure, and the
\* failure of the props-update emit after the status was set to mounted.
RetryEdges ==
  {<<"unmounted", "loading">>, <<"error", "loading">>, <<"error", "mounting">>,
   <<"mounted", "error">>, <<"error", "unmounting">>}

TimeoutWins == abandoned' = abandoned + 1

\* A strategy mount the load timeout gave up on settles in this step.
LoserSettlesStep == abandoned' = abandoned - 1

\* C17: a fresh mount races the strategy's mount against the load timeout. The timeout
\* fires only while the oldest operation awaits a fresh strategy mount that has not
\* settled, and the instance then enters error with the mounted flag and the channel left
\* as they were; when the strategy mount it gave up on settles later, status, mounted flag
\* and channel stay as they are; and error is entered only by a step of an awaited mount,
\* so once the mount has settled no timeout moves the instance to error.
C17_FirstToSettleDecides ==
  [][/\ TimeoutWins =>
          /\ lifecycleLock # <<>> /\ lifecycleLock[1].at = "mount"
          /\ ~lifecycleLock[1].isRestore /\ ~lifecycleLock[1].settled
          /\ status = "mounting" /\ status' = "error"
          /\ lifecycleLock' = Tail(lifecycleLock)
          /\ UNCHANGED <<mounted, rpc>>
     /\ LoserSettlesStep => UNCHANGED <<status, statusPath, mounted, rpc, lifecycleLock>>
     /\ (status # "error" /\ status' = "error") => AwaitedMounts = {1}
     /\ (AwaitedMounts = {} \/ AwaitedMounts' # {}) => abandoned' <= abandoned]_vars

\* The load timeout ended the first mount, a later attempt mounted the instance, and the
\* strategy mount of the first attempt is still in flight.
C17_Witness == abandoned = 1 /\ status = "mounted" /\ mounted /\ lifecycleLock = <<>>

\* unmountApp gets past its early return in this step: the oldest operation, a detach or
\* a src change, is called while the instance is mounted.
UnmountStarts ==
  /\ lifecycleLock # <<>> /\ lifecycleLock[1].at = "queued"
  /\ lifecycleLock[1].op \in {"disconnect", "remount"}
  /\ mounted /\ adapter # NULL
  /\ lifecycleLock' # lifecycleLock /\ ~Arrives

\* The adapter call unmountApp awaits returns in this step.
UnmountEnds(call) ==
  /\ lifecycleLock # <<>> /\ lifecycleLock[1].at = call
  /\ lifecycleLock' # lifecycleLock /\ ~Arrives

ReattachFindsRetained ==
  /\ lifecycleLock # <<>> /\ lifecycleLock[1].op = "connect" /\ lifecycleLock[1].at = "queued"
  /\ Len(lifecycleLock') = Len(lifecycleLock) /\ lifecycleLock'[1].at = "mount"
  /\ status = "unmounted" /\ inKeepAlive /\ KAHas(kaEntries, ThisApp)

\* C19 (as claimed): a re-attach whose queued mount finds the instance in the registry
\* restores: the status goes from unmounted to mounting without loading, also when the
\* re-attach event arrived before the detach before it had run.
C19_ReattachRestores ==
  [][ReattachFindsRetained =>
       statusPath' = <<"mounting">> /\ lifecycleLock'[1].isRestore]_vars

\* The mount of a restore is called in this step.
RestoreStarts ==
  /\ lifecycleLock # <<>> /\ lifecycleLock[1].at = "queued"
  /\ Len(lifecycleLock') = Len(lifecycleLock)
  /\ lifecycleLock'[1].at = "mount" /\ lifecycleLock'[1].isRestore

\* The strategy mount of a restore resolved in this step and mountApp ran to its end.
RestoreEnds ==
  /\ lifecycleLock # <<>> /\ lifecycleLock[1].at = "mount" /\ lifecycleLock[1].isRestore
  /\ mounted' /\ ~mounted

\* C20 (as claimed): at every isolation level the restore of a retained instance loads
\* the src no more (the strategy's mount has nothing to await), and it ends with a message
\* channel to the instance open.
C20_RestoreSkipsLoad ==
  [][/\ RestoreStarts => lifecycleLock'[1].settled
     /\ RestoreEnds => rpc' # NoRpc]_vars

\* The mount awaited by the oldest operation fails in this step (the strategy's mount
\* rejected or the load timeout fired): the operation moves without the instance
\* becoming mounted.
MountFails ==
  /\ lifecycleLock # <<>> /\ lifecycleLock[1].at = "mount"
  /\ lifecycleLock' # lifecycleLock /\ ~Arrives
  /\ ~mounted'

\* The oldest operation takes a step while the instance is in error after a failed mount.
RunsAfterFailure ==
  /\ status = "error" /\ ~mounted
  /\ lifecycleLock # <<>> /\ lifecycleLock[1].at \in {"queued", "unmounted"}
  /\ lifecycleLock' # lifecycleLock /\ ~Arrives

\* C34: a mount that fails (the strategy's mount rejects, the src is invalid, the load
\* timeout fires) sets the status to error and ends its operation: lifecycleLock is never
\* rejected, the operations queued behind it are next, in their order. The status stays
\* error until a later operation begins a mount; of the operations that run in that state
\* a re-attach begins a new mount, a source change returns from unmountApp at once and
\* begins a new mount, and a detach returns at once.
C34_FailedMountDoesNotBlock ==
  /\ [](\A i \in 1..Len(lifecycleLock) : lifecycleLock[i].at # "rejected")
  /\ [][/\ MountFails =>
             /\ status' = "error"
             /\ lifecycleLock' = Tail(lifecycleLock)
        /\ (status = "error" /\ ~mounted /\ status' # "error") =>
             /\ RunsAfterFailure
             /\ status' = "mounting" /\ lifecycleLock'[1].at = "mount"
        /\ (RunsAfterFailure /\ lifecycleLock[1].op = "connect") =>
             /\ status' = "mounting" /\ lifecycleLock'[1].at = "mount"
             /\ Tail(lifecycleLock') = Tail(lifecycleLock)
        /\ (RunsAfterFailure /\ lifecycleLock[1].op = "remount") =>
             /\ Tail(lifecycleLock') = Tail(lifecycleLock)
             /\ IF lifecycleLock[1].at = "queued"
                  THEN lifecycleLock'[1].at = "unmounted" /\ status' = "error"
                  ELSE lifecycleLock'[1].at = "mount" /\ status' = "mounting"
        /\ (RunsAfterFailure /\ lifecycleLock[1].op = "disconnect") =>
             /\ lifecycleLock' = Tail(lifecycleLock) /\ status' = "error"]_vars

\* The load timeout ended the first mount; the source change queued behind it ran and
\* began a new mount of the instance, and a detach waits behind that.
C34_Witness ==
  /\ abandoned = 1 /\ status = "mounting" /\ statusPath = <<"loading", "mounting">>
  /\ Len(lifecycleLock) = 2
  /\ lifecycleLock[1].op = "remount" /\ lifecycleLock[1].at = "mount"
  /\ lifecycleLock[2].op = "disconnect" /\ lifecycleLock[2].at = "queued"

\* C35 (as claimed): once a detach has run for a strict instance whose mount failed or
\* timed out, retain-on-removal not set, the pool counts no context as in use by the
\* instance.
C35_FailedMountFreesContext ==
  [][(/\ RunsAfterFailure /\ lifecycleLock[1].op = "disconnect"
      /\ adapter = "strict" /\ ~keepAliveAttr)
       => InUseBy(pool', ThisApp) = {}]_vars

\* The registry evicts the instance in this step.
EvictedStep == KAHas(kaEntries, ThisApp) /\ ~KAHas(kaEntries', ThisApp)

\* C36 (as claimed): when the registry evicts a retained strict instance, the pool counts
\* the context the instance held as in use no more.
C36_EvictionFreesContext ==
  [][(EvictedStep /\ adapter = "strict" /\ strictIframe # 0)
       => (InUseBy(pool', ThisApp) = {} /\ stats(pool').inUse < stats(pool).inUse)]_vars

\* mountApp(false) gets past its early return in this step and calls the strategy's mount
\* with a src the strategy accepts.
FullMountBegins ==
  /\ lifecycleLock # <<>> /\ lifecycleLock[1].at # "mount"
  /\ Len(lifecycleLock') = Len(lifecycleLock)
  /\ lifecycleLock'[1].at = "mount"
  /\ ~lifecycleLock'[1].isRestore /\ ~lifecycleLock'[1].threw

\* C37 (as claimed): every full mount the controller performs on a strict instance makes
\* the strategy load the instance's src: the strategy's mount navigates the context and
\* waits for its load, whatever the instance went through before.
C37_FullMountLoadsSource ==
  [][(FullMountBegins /\ sandboxAttr = "strict") => ~lifecycleLock'[1].settled]_vars

\* A src with which an instance of the level mounts: the strategy's getOrigin accepts it.
Mounts(level, src) == getOrigin(level, src) # NULL

\* C27: the channel the controller opened for a mounted strict or remote instance is
\* bound to a specific origin, never the wildcard, and so is the channel setupRpc opens
\* for every src a strict or remote instance mounts with, absolute or relative.
C27_ChannelOriginSpecific ==
  /\ (status = "mounted" /\ rpc # NoRpc) => rpc.origin # "*"
  /\ \A level \in {"strict", "remote"}, src \in SbSrcs :
       Mounts(level, src) => deriveOrigin(src) # "*"

\* C39 (as claimed): an instance has at most one channel that is not disposed: setupRpc
\* opens a channel only when the controller holds none (unmountApp disposed the one of the
\* mount before), and the controller holds no channel while the status is unmounted or
\* error.
C39_OneLiveChannel ==
  /\ [](status \in {"unmounted", "error"} => rpc = NoRpc)
  /\ [][(rpc' # rpc /\ rpc' # NoRpc) => rpc = NoRpc]_vars

\* ------------------------------------------------- createScopedProxy: claims

\* C31 (as claimed): a property write through the window proxy leaves the host's window
\* (and document) as it was; a read of a key written through the proxy, and not deleted
\* since, returns the value written last; a read of a key never written through the proxy
\* returns the value the host's window has for it.
C31_WritesPrivateReadsThrough ==
  [][ /\ pwLast'.op = "set" =>
           (hostWindow' = hostWindow /\ hostTitle' = hostTitle /\ hostCookies' = hostCookies)
      /\ \A k \in PwKeys :
           (pwLast'.op = "get" /\ pwLast'.key = k) =>
             (IF k \in localKeys THEN pwLast'.ret = localScope[k]
              ELSE (k \notin pwLast.written => pwLast'.ret = hostWindow[k]))
    ]_vars
\* C32 (as claimed): a write of the title or of a cookie through the document proxy
\* leaves the host's real title and cookies as they were; the title written is kept in
\* scopedTitle, and a read of the title through the proxy returns it.
C32_TitleAndCookiePrivate ==
  [][ /\ pwLast'.op = "docSet" => (hostTitle' = hostTitle /\ hostCookies' = hostCookies)
      /\ (pwLast'.op = "docSet" /\ pwLast'.key = "title") =>
           scopedTitle' \in {String(v) : v \in PwValues}
      /\ (pwLast'.op = "docGet" /\ pwLast'.key = "title") => pwLast'.ret = scopedTitle
    ]_vars

====
